---- MODULE Spec2Model ----
(***************************************************************************)
(* A model of gopushpixels: the PixelPusher packet stream assembler        *)
(* (protocol/pixelpusher/packet.go), the per-device packet dispatcher of a *)
(* Remote device (device/dispatcher.go, device/remote.go), the discovery   *)
(* Registry with its per-entry lifecycle task (discovery/registry.go), the *)
(* device Registry and the Router over it (device/registry.go,             *)
(* device/router.go) and the Player of package replay.                     *)
(***************************************************************************)
EXTENDS Integers, Sequences, FiniteSets, TLC

(***************************************************************************)
(* Bounds of the model.                                                    *)
(***************************************************************************)
\* Number of PacketStream calls in one behaviour.
MaxOps == 3
\* Number of threads that call Sender, SendPacket, SendDatagram and Close on
\* one Remote device.
NumCallers == 2
\* Number of Sender() calls on the device in one behaviour.
MaxSenderCalls == 3
\* Number of Observe calls on the discovery Registry in one behaviour.
MaxObserves == 2
\* The clock of the discovery Registry runs from 0 to MaxTime.
MaxTime == 3
\* Capacity of a registry entry's updateExpirationC.
UpdateExpirationCap == 1
\* Number of Add calls on the device Registry in one behaviour.
MaxAdds == 3
\* Number of Route calls on the Router in one behaviour.
MaxRoutes == 2
\* Number of Shutdown calls on the Router in one behaviour.
MaxShutdowns == 1
\* The Player's clock runs from 0 to MaxClock, in half seconds.
MaxClock == 7
\* Number of Pause and Resume calls on the Player in one behaviour.
MaxCommands == 3
\* Number of rounds the Player plays in one behaviour.
MaxRounds == 2
\* Number of RecordPacket calls and of Start calls on the Recorder in one
\* behaviour.
MaxRecords == 4
MaxStarts == 2

(***************************************************************************)
(* Program constants.                                                      *)
(***************************************************************************)
\* Player.MaxLagAge: half a second.
MaxLagAge == 1

CommandReset == 1
CommandGlobalBrightnessSet == 2
BufferRGB == 0
BufferRGBOW == 1

CommandMagic ==
  <<64, 9, 45, 166, 21, 165, 221, 229, 106, 157, 77, 90, 207, 9, 175, 80>>

VARIABLES
  ps,      \* the PacketStream: its fields, plus strips, the strip states
           \* written into stripStateBuf since it was last reset
  ds,      \* the DatagramSender: maxDatagramSize, the number of datagrams
           \* it accepted and the last one
  call,    \* the last PacketStream call: operation, argument, result, its
           \* log of send attempts, and the call before it (op, err)
  nextID0, \* NextID when the stream was created
  ops      \* number of calls made

psVars == <<ps, ds, call, nextID0, ops>>

\* A Remote device, its dispatchers and the threads that use them.
VARIABLES
  done,         \* the Remote's doneC is closed
  dispatcherMu, \* Remote.dispatcherMu: 0, or the thread that holds it
  dispatcher,   \* Remote.dispatcher: 0 (nil), or a dispatcher
  nDisp,        \* number of dispatchers created so far
  pd,           \* the packetDispatchers: mu (0 or the holding thread), refs,
                \* isShutdown, shutdownC (closed), base (the dynamic sender
                \* has a dialled socket), buffered (the stream holds strips)
  pc,           \* where each thread is
  held,         \* per caller: the dispatcher of the Sender it holds, or 0
  cur,          \* per thread: the dispatcher it is shutting down
  calls,        \* number of Sender() calls begun
  hist          \* what happened: per dispatcher the number of shutdowns and
                \* whether each was justified; sends and Senders after done

dispVars ==
  <<done, dispatcherMu, dispatcher, nDisp, pd, pc, held, cur, calls, hist>>

\* The discovery Registry, its entries and the threads that use it.
VARIABLES
  now,      \* the clock
  reg,      \* the Registry: Expiration, mu (0 or the holding thread),
            \* devices (per device ID an entry, or 0)
  nEntries, \* number of registry entries created so far
  entry,    \* the entries: deviceID, done (the Remote's doneC is closed),
            \* ch and closed (updateExpirationC), timer, pc and cause (the
            \* lifecycle task), observed and expires (the observations),
            \* promised (the deadline of the last observation made before
            \* the timer fired), doneAt
  client,   \* the calling threads: pc, and the ID and time of an Observe
  nObserves \* number of Observe calls begun

regVars == <<now, reg, nEntries, entry, client, nObserves>>

\* The device Registry, the devices that are added to it and the threads
\* that use it.
VARIABLES
  dev,      \* the devices: ordinal (what Ordinal() returns), done
  dreg,     \* the Registry: devices (per ID an entry, or 0), groupMap and
            \* ordinalMap (per key that is present, a set of entries)
  dentry,   \* the entries: device, deviceID, registeredGroup,
            \* registeredOrdinal, and pc of the lifecycle task
  adder,    \* the threads that call Add: pc and the device being added
  nAdds     \* number of Add calls begun

drVars == <<dev, dreg, dentry, adder, nAdds>>

\* The Router over the device Registry, its connections and the threads
\* that use it.
VARIABLES
  listeners,   \* Router.listeners: the registered Listeners
  connections, \* Router.connections: per device a connection, or 0
  rconn,       \* the routerConnections: device, once (shutdownOnce is
               \* spent), closes (the number of Close calls on the sender)
               \* and pc of the lifecycle task
  route,       \* the threads that call Route: pc, the arguments, the device
               \* and connection found, the listeners visited by Range, and
               \* what the call did
  nRoutes,     \* number of Route calls begun
  nShutdowns   \* number of Router.Shutdown calls

rtVars == <<listeners, connections, rconn, route, nRoutes, nShutdowns>>

\* The Player, its playback task and the thread that controls it.
VARIABLES
  clock,   \* the wall clock, in half seconds
  pp,      \* the playerPlayback and its task: pc, idx (the event that was
           \* read), startTime, realtimeOffset, and pausedStart and
           \* timerRunning of waitForNextCommandOrEvent
  command, \* the command that sendCommand offers on commandC, or
           \* NoCommand
  nCmds,   \* number of Pause and Resume calls
  nRounds, \* number of rounds begun
  played,  \* what happened in this round: per event when SendPacket was
           \* called with it and the delta it had, the events dropped, and
           \* the commands processed with their times
  lease,   \* the playback lease is held
  ctl      \* the Player and the thread that calls it: pc, playback (is not
           \* nil), ctxDone, finishedC and commandC (are closed), statusC
           \* (holds a status), srClosed, and result of the last Status

plVars == <<clock, pp, command, nCmds, nRounds, played, lease, ctl>>

\* The Recorder, its EventStreamWriter and the threads that call it.
VARIABLES
  rec,     \* the Recorder: sw (is not nil), recvErr; of its writer werr
           \* (the error the writers keep) and events (written); firstErr
           \* (the first error RecordPacket met that is not
           \* ErrEncodingNotSupported), writtenAfter (an event was written
           \* after it), and last (the last call and what it returned)
  nRecs,   \* number of RecordPacket calls
  nStarts  \* number of Start calls

rcVars == <<rec, nRecs, nStarts>>

\* One round of the playback task (playRound), a merge of stream files, a
\* Mutable device and a discovery Listener.
VARIABLES
  rd,      \* playRound
  mrg,     \* the stream files that are merged and the result of Merge
  mtb,     \* the Mutable
  lsn      \* the Listener

auxVars == <<rd, mrg, mtb, lsn>>

vars == <<ps, ds, call, nextID0, ops,
          done, dispatcherMu, dispatcher, nDisp, pd, pc, held, cur, calls,
          hist,
          now, reg, nEntries, entry, client, nObserves,
          dev, dreg, dentry, adder, nAdds,
          listeners, connections, rconn, route, nRoutes, nShutdowns,
          clock, pp, command, nCmds, nRounds, played, lease, ctl,
          rec, nRecs, nStarts,
          rd, mrg, mtb, lsn>>

\* What each part of the model leaves alone.
streamFrame == <<dispVars, regVars, drVars, rtVars, plVars, rcVars, auxVars>>

dispatcherFrame == <<psVars, regVars, drVars, rtVars, plVars, rcVars, auxVars>>

discoveryFrame == <<psVars, dispVars, drVars, rtVars, plVars, rcVars, auxVars>>

deviceRegistryFrame == <<psVars, dispVars, regVars, rtVars, plVars, rcVars, auxVars>>

routerFrame == <<psVars, dispVars, regVars, plVars, rcVars, auxVars>>

playerFrame == <<psVars, dispVars, regVars, drVars, rtVars, rcVars, auxVars>>

recorderFrame == <<psVars, dispVars, regVars, drVars, rtVars, plVars, auxVars>>

restFrame == <<psVars, dispVars, regVars, drVars, rtVars, plVars, rcVars>>

playRoundFrame == <<restFrame, mrg, mtb, lsn>>

mergeFrame == <<restFrame, rd, mtb, lsn>>

mutableFrame == <<restFrame, rd, mrg, lsn>>

listenerFrame == <<restFrame, rd, mrg, mtb>>

(***************************************************************************)
(* Bytes.                                                                  *)
(***************************************************************************)
Min(a, b) == IF a < b THEN a ELSE b

Zeros(n) == [i \in 1..n |-> 0]

\* A uint32 is kept as its two 16-bit halves (the model checker's integers are
\* 32-bit signed): U32(hi, lo) stands for hi * 65536 + lo.
U32(hi, lo) == [hi |-> hi, lo |-> lo]

\* n + k in uint32 arithmetic, for 0 <= k < 65536.
AddU32(n, k) ==
  LET lo == n.lo + k
  IN  U32((n.hi + (lo \div 65536)) % 65536, lo % 65536)

\* binary.BigEndian.PutUint32
BE32(n) == << n.hi \div 256, n.hi % 256, n.lo \div 256, n.lo % 256 >>

\* struc ",little" uint16
LE16(n) == << n % 256, (n \div 256) % 256 >>

Drop(s, n) == SubSeq(s, n + 1, Len(s))

Take(s, n) == SubSeq(s, 1, Min(n, Len(s)))

(***************************************************************************)
(* pixel.Buffer: a layout and the wire bytes.                              *)
(***************************************************************************)
pixelSize(pb) == IF pb.Layout = BufferRGB THEN 3 ELSE 9

BufferLen(pb) == Len(pb.buf) \div pixelSize(pb)

CloneFromWithLen(other, count) ==
  LET bytesNeeded == count * pixelSize(other)
      copySize == Min(bytesNeeded, Len(other.buf))
  IN  [Layout |-> other.Layout,
       buf |-> Take(other.buf, copySize) \o Zeros(bytesNeeded - copySize)]

(***************************************************************************)
(* Commands.                                                               *)
(***************************************************************************)
WriteContentTo(cmd) ==
  IF cmd.ID = CommandGlobalBrightnessSet THEN LE16(cmd.Parameter) ELSE <<>>

WriteCommand(cmd, w, writeMagic) ==
  w \o (IF writeMagic THEN CommandMagic ELSE <<>>) \o <<cmd.ID>>
    \o WriteContentTo(cmd)

(***************************************************************************)
(* PacketStream.  Every operation takes the stream s, the sender's         *)
(* MaxDatagramSize mds and, for each SendDatagram it may make, whether the *)
(* sender fails it; it returns the stream afterwards, whether the call     *)
(* returned an error, and log: the datagrams passed to SendDatagram, each  *)
(* with the sender's answer.                                               *)
(***************************************************************************)
resetPacketBuffer(buf) == IF Len(buf) < 4 THEN Zeros(4) ELSE Take(buf, 4)

\* resetPacketBuffer applied to one of the stream's two buffers.
ResetBuf(s, which) ==
  IF which = "stripStateBuf"
  THEN [s EXCEPT !.stripStateBuf = resetPacketBuffer(@), !.strips = <<>>]
  ELSE [s EXCEPT !.commandBuf = resetPacketBuffer(@)]

calculateMaxPacketSize(s, mds) ==
  IF s.FixedSize <= 0 \/ s.FixedSize > mds THEN mds ELSE s.FixedSize

\* The bytes of a packet before its ID and padding are written: the command,
\* or the strip states written since the buffer was reset.
RECURSIVE Flatten(_)
Flatten(chunks) ==
  IF chunks = <<>> THEN <<>> ELSE Head(chunks) \o Flatten(Tail(chunks))

Content(s, which) ==
  IF which = "stripStateBuf" THEN Flatten(s.strips) ELSE Drop(s.commandBuf, 4)

\* One entry of a call's log: the buffer, the NextID and the content at the
\* attempt (with, for the strip state buffer, the number of strip states in
\* it), whether the buffer was passed to SendDatagram and, if so, the bytes
\* passed and whether the sender accepted them.
Attempt(s, which, handed, data, ok) ==
  [buf |-> which, id |-> s.NextID, content |-> Content(s, which),
   nstrips |-> IF which = "stripStateBuf" THEN Len(s.strips) ELSE 0,
   handed |-> handed, data |-> data, ok |-> ok]

\* binary.BigEndian.PutUint32(buf.Bytes()[:4], ps.NextID)
writePacketID(s, which) == [s EXCEPT ![which] = BE32(s.NextID) \o Drop(@, 4)]

exceedsMaxDatagramSize_Never(s, which, mds) == FALSE

\* buf.Len() > mds
exceedsMaxDatagramSize(s, which, mds) == Len(s[which]) > mds

writePadding_None(s, which) == s

\* Padding bytes up to FixedSize, when it is set and not reached.
writePadding(s, which) ==
  IF s.FixedSize > 0 /\ Len(s[which]) < s.FixedSize
  THEN [s EXCEPT ![which] = @ \o Zeros(s.FixedSize - Len(@))]
  ELSE s

packetSent_SameID(s, which) == ResetBuf(s, which)

\* After a successful send: reset the buffer, increment the sequence number.
packetSent(s, which) == [ResetBuf(s, which) EXCEPT !.NextID = AddU32(@, 1)]

finalizeAndSendPacket(s, which, mds, sendErr) ==
  LET s1 == writePacketID(s, which)
      s2 == writePadding(s1, which)
  IN  IF exceedsMaxDatagramSize(s1, which, mds)
      THEN [ps |-> s1, err |-> TRUE,
            log |-> << Attempt(s, which, FALSE, <<>>, FALSE) >>]
      ELSE IF sendErr
      THEN [ps |-> s2, err |-> TRUE,
            log |-> << Attempt(s, which, TRUE, s2[which], FALSE) >>]
      ELSE [ps |-> packetSent(s2, which), err |-> FALSE,
            log |-> << Attempt(s, which, TRUE, s2[which], TRUE) >>]

\* SendCommand writing the command into the strip state buffer.
SendCommand_StripStateBuf(s, mds, cmd, sendErr) ==
  LET s1 == IF s.stripStateCount = 0 THEN ResetBuf(s, "stripStateBuf") ELSE s
      s2 == [s1 EXCEPT !.stripStateBuf = WriteCommand(cmd, @, TRUE)]
      r == finalizeAndSendPacket(s2, "stripStateBuf", mds, sendErr)
  IN  IF r.err THEN r ELSE [r EXCEPT !.ps.stripStateCount = 0]

SendCommand(s, mds, cmd, sendErr) ==
  LET s1 == ResetBuf(s, "commandBuf")
      s2 == [s1 EXCEPT !.commandBuf = WriteCommand(cmd, @, TRUE)]
  IN  finalizeAndSendPacket(s2, "commandBuf", mds, sendErr)

Flush_AlwaysReset(s, mds, sendErr) ==
  IF s.stripStateCount = 0
  THEN [ps |-> s, err |-> FALSE, log |-> <<>>]
  ELSE LET r == finalizeAndSendPacket(s, "stripStateBuf", mds, sendErr)
       IN  [r EXCEPT !.ps.stripStateCount = 0]

Flush(s, mds, sendErr) ==
  IF s.stripStateCount = 0
  THEN [ps |-> s, err |-> FALSE, log |-> <<>>]
  ELSE LET r == finalizeAndSendPacket(s, "stripStateBuf", mds, sendErr)
       IN  IF r.err THEN r ELSE [r EXCEPT !.ps.stripStateCount = 0]

\* WriteStripState flushing only once the count is over MaxStripsPerPacket.
WriteStripState_FlushLater(s, mds, ss, data, sendErr, log) ==
  LET chunk == <<ss.StripNumber % 256>> \o data
      s1 == [s EXCEPT !.stripStateBuf = @ \o chunk,
                      !.strips = Append(@, chunk),
                      !.stripStateCount = @ + 1]
  IN  IF s1.stripStateCount > s1.MaxStripsPerPacket
      THEN LET r == Flush(s1, mds, sendErr) IN [r EXCEPT !.log = log \o @]
      ELSE [ps |-> s1, err |-> FALSE, log |-> log]

\* The tail of SendOrEnqueueStripState: write the strip number and data,
\* count the strip, flush when the count has reached MaxStripsPerPacket.
WriteStripState(s, mds, ss, data, sendErr, log) ==
  LET chunk == <<ss.StripNumber % 256>> \o data
      s1 == [s EXCEPT !.stripStateBuf = @ \o chunk,
                      !.strips = Append(@, chunk),
                      !.stripStateCount = @ + 1]
  IN  IF s1.stripStateCount >= s1.MaxStripsPerPacket
      THEN LET r == Flush(s1, mds, sendErr) IN [r EXCEPT !.log = log \o @]
      ELSE [ps |-> s1, err |-> FALSE, log |-> log]

SendOrEnqueueStripState(s, mds, ss0, sendErr1, sendErr2) ==
  LET data == ss0.Pixels.buf
      ss == IF s.PixelsPerStrip > 0 /\ BufferLen(ss0.Pixels) # s.PixelsPerStrip
            THEN [StripNumber |-> ss0.StripNumber,
                  Pixels |-> CloneFromWithLen(ss0.Pixels, s.PixelsPerStrip)]
            ELSE ss0
      s1 == IF s.stripStateCount = 0 THEN ResetBuf(s, "stripStateBuf") ELSE s
      mps == calculateMaxPacketSize(s, mds)
      stripDataSize == 1 + Len(data)
  IN  IF Len(data) = 0
      THEN [ps |-> s, err |-> FALSE, log |-> <<>>]
      ELSE IF mps > 0 /\ Len(s1.stripStateBuf) + stripDataSize > mps
      THEN IF s1.stripStateCount = 0
           THEN [ps |-> s1, err |-> TRUE, log |-> <<>>]
           ELSE LET r == Flush(s1, mds, sendErr1)
                IN  IF r.err
                    THEN r
                    ELSE IF Len(r.ps.stripStateBuf) + stripDataSize > mps
                    THEN [r EXCEPT !.err = TRUE]
                    ELSE WriteStripState(r.ps, mds, ss, data, sendErr2, r.log)
      ELSE WriteStripState(s1, mds, ss, data, sendErr2, <<>>)

\* The loop of PacketStream.Send over the strip states of a packet.
RECURSIVE SendStripStates(_, _, _, _, _)
SendStripStates(s, mds, strips, sendErr, log) ==
  IF strips = <<>>
  THEN [ps |-> s, err |-> FALSE, log |-> log]
  ELSE LET r == SendOrEnqueueStripState(s, mds, Head(strips), sendErr,
                                        sendErr)
       IN  IF r.err
           THEN [r EXCEPT !.log = log \o @]
           ELSE SendStripStates(r.ps, mds, Tail(strips), sendErr,
                                log \o r.log)

\* PacketStream.Send.  pkt.Command is <<>> for nil, or holds the command.
Send(s, mds, pkt, sendErr) ==
  IF pkt.Command # <<>>
  THEN SendCommand(s, mds, pkt.Command[1], sendErr)
  ELSE SendStripStates(s, mds, pkt.StripStates, sendErr, <<>>)

\* packetDispatcher.SendPacket without the flush that follows Send.
StreamSendPacket_NoFlush(s, mds, pkt, sendErr, flushErr) ==
  Send(s, mds, pkt, sendErr)

\* What packetDispatcher.SendPacket does with the dispatcher's stream:
\* stream.Send, then stream.Flush unless Send returned an error.
StreamSendPacket(s, mds, pkt, sendErr, flushErr) ==
  LET r == Send(s, mds, pkt, sendErr)
  IN  IF r.err
      THEN r
      ELSE LET f == Flush(r.ps, mds, flushErr)
           IN  [f EXCEPT !.log = r.log \o @]

(***************************************************************************)
(* The calls the model makes and the streams it starts from.               *)
(***************************************************************************)
Commands ==
  { [ID |-> CommandReset, Parameter |-> 0],
    [ID |-> CommandGlobalBrightnessSet, Parameter |-> 4660] }

StripNumbers == {2, 7}

PixelCounts == {0, 1, 2}

\* A strip state of c RGB pixels whose bytes are all non-zero.
StripInput(n, c) ==
  [StripNumber |-> n,
   Pixels |-> [Layout |-> BufferRGB, buf |-> [i \in 1..(3 * c) |-> 16 * n + i]]]

StripInputs == { StripInput(n, c) : n \in StripNumbers, c \in PixelCounts }

\* The packets passed to SendPacket: one command, one strip state, or two
\* strip states.
Packets ==
  { [Command |-> <<cmd>>, StripStates |-> <<>>] : cmd \in Commands }
    \cup { [Command |-> <<>>, StripStates |-> <<ss>>] :
              ss \in {StripInput(2, 1), StripInput(7, 2)} }
    \cup { [Command |-> <<>>,
            StripStates |-> <<StripInput(2, 1), StripInput(7, 1)>>] }

FixedSizes == {0, 12, 24}

DatagramSizes == {0, 10, 22, 30}

StripsPerPacket == {1, 2}

PixelsPerStrips == {0, 1, 2}

\* 0xFFFFFFFE: the ID wraps around within MaxOps sends.
InitialIDs == {U32(65535, 65534)}

NoCall == [op |-> "none", err |-> FALSE, log |-> <<>>, arg |-> <<>>,
           prev |-> <<"none", FALSE>>]

PSInit ==
  /\ \E fs \in FixedSizes, m \in StripsPerPacket, p \in PixelsPerStrips,
        id \in InitialIDs :
       /\ ps = [MaxStripsPerPacket |-> m, PixelsPerStrip |-> p,
                FixedSize |-> fs, NextID |-> id, commandBuf |-> <<>>,
                stripStateBuf |-> <<>>, stripStateCount |-> 0,
                strips |-> <<>>]
       /\ nextID0 = id
  /\ \E mds \in DatagramSizes :
       ds = [maxDatagramSize |-> mds, count |-> 0, last |-> <<>>]
  /\ call = NoCall
  /\ ops = 0

\* The mock sender keeps the datagrams it accepted.
Deliver(d, log) ==
  LET okd == SelectSeq(log, LAMBDA a : a.ok)
  IN  [d EXCEPT !.count = @ + Len(okd),
                !.last = IF Len(okd) > 0 THEN okd[Len(okd)].data ELSE @]

Returned(op, arg, r) ==
  /\ ps' = r.ps
  /\ ds' = Deliver(ds, r.log)
  /\ call' = [op |-> op, err |-> r.err, log |-> r.log, arg |-> arg,
              prev |-> <<call.op, call.err>>]
  /\ ops' = ops + 1
  /\ UNCHANGED nextID0

DoSendCommand ==
  /\ ops < MaxOps
  /\ \E cmd \in Commands, sendErr \in BOOLEAN :
       Returned("SendCommand", cmd,
                SendCommand(ps, ds.maxDatagramSize, cmd, sendErr))

DoSendOrEnqueueStripState ==
  /\ ops < MaxOps
  /\ \E ss \in StripInputs, sendErr1 \in BOOLEAN, sendErr2 \in BOOLEAN :
       Returned("SendOrEnqueueStripState", ss,
                SendOrEnqueueStripState(ps, ds.maxDatagramSize, ss,
                                        sendErr1, sendErr2))

DoFlush ==
  /\ ops < MaxOps
  /\ \E sendErr \in BOOLEAN :
       Returned("Flush", <<>>, Flush(ps, ds.maxDatagramSize, sendErr))

\* packetDispatcher.SendPacket on the stream.  The sender gives one answer
\* to the datagrams of Send and one to the datagram of the Flush after it.
DoSendPacket ==
  /\ ops < MaxOps
  /\ \E pkt \in Packets, sendErr \in BOOLEAN, flushErr \in BOOLEAN :
       Returned("SendPacket", pkt,
                StreamSendPacket(ps, ds.maxDatagramSize, pkt, sendErr,
                                 flushErr))

PSQuiet ==
  /\ ps = <<>>
  /\ ds = <<>>
  /\ call = NoCall
  /\ nextID0 = U32(0, 0)
  /\ ops = 0

(***************************************************************************)
(* Remote device and packetDispatcher.  The device is a PixelPusher        *)
(* device, so DiscoveryHeaders.PacketStream succeeds.  Threads take the    *)
(* two mutexes dispatcherMu and packetDispatcher.mu step by step; senderMu *)
(* is taken and released inside one step, as nothing blocks under it.      *)
(* The dispatcher's PacketStream is kept as `buffered`: whether strip      *)
(* states are waiting in it for a flush.                                   *)
(***************************************************************************)
Callers == 1..NumCallers

Dispatchers == 1..MaxSenderCalls

\* The goroutine shutdownWhenDeviceIsDone of dispatcher k.
Goroutine(k) == NumCallers + k

Threads == 1..(NumCallers + MaxSenderCalls)

NoDispatcher ==
  [mu |-> 0, refs |-> 0, isShutdown |-> FALSE, shutdownC |-> FALSE,
   base |-> FALSE, buffered |-> FALSE]

NoHistory ==
  [shutdowns |-> [k \in Dispatchers |-> 0],
   unjustified |-> FALSE,
   sentAfterDone |-> FALSE,
   senderAfterDone |-> FALSE]

RemoteInit ==
  /\ done = FALSE
  /\ dispatcherMu = 0
  /\ dispatcher = 0
  /\ nDisp = 0
  /\ pd = [k \in Dispatchers |-> NoDispatcher]
  /\ pc = [t \in Threads |-> IF t \in Callers THEN "idle" ELSE "none"]
  /\ held = [t \in Callers |-> 0]
  /\ cur = [t \in Threads |-> 0]
  /\ calls = 0
  /\ hist = NoHistory

DispatcherQuiet == RemoteInit

\* Remote.MarkDone: close(doneC), once.
MarkDone ==
  /\ ~done
  /\ done' = TRUE
  /\ UNCHANGED <<dispatcherMu, dispatcher, nDisp, pd, pc, held, cur, calls,
                 hist>>

\* Remote.Sender -> ensureAndRetainDispatcher: d.dispatcherMu.Lock().
\* cur remembers whether the device was already done when the call began.
SenderLock(t) ==
  /\ pc[t] = "idle"
  /\ held[t] = 0
  /\ calls < MaxSenderCalls
  /\ dispatcherMu = 0
  /\ dispatcherMu' = t
  /\ pc' = [pc EXCEPT ![t] = "ensure"]
  /\ cur' = [cur EXCEPT ![t] = IF done THEN 1 ELSE 0]
  /\ calls' = calls + 1
  /\ UNCHANGED <<done, dispatcher, nDisp, pd, held, hist>>

\* A Sender was returned to thread t by a call that began when the device
\* was done (cur[t] = 1).
NoteSender(h, t) ==
  [h EXCEPT !.senderAfterDone = @ \/ cur[t] = 1]

\* ensureAndRetainDispatcher under dispatcherMu: go on to Retain the
\* singleton, or dial, create the dispatcher and RetainAndStart it.
SenderEnsure(t) ==
  /\ pc[t] = "ensure"
  /\ IF dispatcher # 0
     THEN /\ pc' = [pc EXCEPT ![t] = "retain"]
          /\ UNCHANGED <<dispatcherMu, dispatcher, nDisp, pd, held, cur,
                         hist>>
     ELSE \E dialOk \in BOOLEAN :
            IF ~dialOk
            THEN /\ dispatcherMu' = 0
                 /\ pc' = [pc EXCEPT ![t] = "idle"]
                 /\ cur' = [cur EXCEPT ![t] = 0]
                 /\ UNCHANGED <<dispatcher, nDisp, pd, held, hist>>
            ELSE LET k == nDisp + 1
                 IN  /\ nDisp' = k
                     /\ dispatcher' = k
                     /\ pd' = [pd EXCEPT ![k] =
                                 [NoDispatcher EXCEPT !.refs = 1,
                                                      !.base = TRUE]]
                     /\ pc' = [pc EXCEPT ![t] = "idle",
                                         ![Goroutine(k)] = "select"]
                     /\ cur' = [cur EXCEPT ![t] = 0, ![Goroutine(k)] = k]
                     /\ held' = [held EXCEPT ![t] = k]
                     /\ hist' = NoteSender(hist, t)
                     /\ dispatcherMu' = 0
  /\ UNCHANGED <<done, calls>>

\* packetDispatcher.Retain, called with dispatcherMu held: pd.mu.Lock(),
\* refs++, unlock; then ensureAndRetainDispatcher returns.
SenderRetain(t) ==
  /\ pc[t] = "retain"
  /\ pd[dispatcher].mu = 0
  /\ pd' = [pd EXCEPT ![dispatcher].refs = @ + 1]
  /\ held' = [held EXCEPT ![t] = dispatcher]
  /\ hist' = NoteSender(hist, t)
  /\ dispatcherMu' = 0
  /\ pc' = [pc EXCEPT ![t] = "idle"]
  /\ cur' = [cur EXCEPT ![t] = 0]
  /\ UNCHANGED <<done, dispatcher, nDisp, calls>>

\* remoteDynamicDatagramSender.SendDatagram on dispatcher state d:
\* ensureSenderConnected dials when there is no socket, then the datagram
\* is written.  sent: the datagram went out to the device.
DynamicSend(d, dialOk, netOk) ==
  IF ~d.base /\ ~dialOk
  THEN [pd |-> d, sent |-> FALSE]
  ELSE [pd |-> [d EXCEPT !.base = TRUE], sent |-> netOk]

NoteSent(h, sent) == [h EXCEPT !.sentAfterDone = @ \/ (sent /\ done)]

\* packetDispatcher.SendPacket: under pd.mu and senderMu, stream.Send then
\* stream.Flush.  A command goes out at once; strip states are written to
\* the stream and flushed; what cannot be sent stays buffered.
SendPacket(t) ==
  /\ pc[t] = "idle"
  /\ held[t] # 0
  /\ pd[held[t]].mu = 0
  /\ \E strips \in BOOLEAN, dialOk \in BOOLEAN, netOk \in BOOLEAN :
       LET k == held[t]
           r == DynamicSend(pd[k], dialOk, netOk)
       IN  /\ pd' = [pd EXCEPT ![k] =
                       [r.pd EXCEPT !.buffered =
                          IF r.sent THEN FALSE ELSE (@ \/ strips)]]
           /\ hist' = NoteSent(hist, r.sent)
  /\ UNCHANGED <<done, dispatcherMu, dispatcher, nDisp, pc, held, cur, calls>>

\* packetDispatcher.SendDatagram: under senderMu only.
SendDatagram(t) ==
  /\ pc[t] = "idle"
  /\ held[t] # 0
  /\ \E dialOk \in BOOLEAN, netOk \in BOOLEAN :
       LET k == held[t]
           r == DynamicSend(pd[k], dialOk, netOk)
       IN  /\ pd' = [pd EXCEPT ![k] = r.pd]
           /\ hist' = NoteSent(hist, r.sent)
  /\ UNCHANGED <<done, dispatcherMu, dispatcher, nDisp, pc, held, cur, calls>>

\* remoteSender.Close -> packetDispatcher.Release: pd.mu.Lock(), refs--,
\* and unless references remain (or the dispatcher is already shut down)
\* go on into shutdownLocked with pd.mu held.
Close(t) ==
  /\ pc[t] = "idle"
  /\ held[t] # 0
  /\ pd[held[t]].mu = 0
  /\ LET k == held[t]
         refs == pd[k].refs - 1
     IN  IF refs > 0 \/ pd[k].isShutdown
         THEN /\ pd' = [pd EXCEPT ![k].refs = refs]
              /\ UNCHANGED <<pc, cur>>
         ELSE /\ pd' = [pd EXCEPT ![k].refs = refs, ![k].mu = t]
              /\ pc' = [pc EXCEPT ![t] = "clear"]
              /\ cur' = [cur EXCEPT ![t] = k]
  /\ held' = [held EXCEPT ![t] = 0]
  /\ UNCHANGED <<done, dispatcherMu, dispatcher, nDisp, calls, hist>>

\* shutdownLocked -> onShutdown -> Remote.clearDispatcher: under
\* dispatcherMu, clear Remote.dispatcher if it is this dispatcher.
ClearDispatcher(t) ==
  /\ pc[t] = "clear"
  /\ dispatcherMu = 0
  /\ dispatcher' = IF dispatcher = cur[t] THEN 0 ELSE dispatcher
  /\ pc' = [pc EXCEPT ![t] = "close"]
  /\ UNCHANGED <<done, dispatcherMu, nDisp, pd, held, cur, calls, hist>>

\* The rest of shutdownLocked: flush the stream, close the sender, close
\* shutdownC, set isShutdown; then pd.mu is unlocked.
ShutdownSender(t) ==
  /\ pc[t] = "close"
  /\ \E dialOk \in BOOLEAN, netOk \in BOOLEAN :
       LET k == cur[t]
           r == IF pd[k].buffered
                THEN DynamicSend(pd[k], dialOk, netOk)
                ELSE [pd |-> pd[k], sent |-> FALSE]
       IN  /\ pd' = [pd EXCEPT ![k] =
                       [r.pd EXCEPT !.buffered = @ /\ ~r.sent,
                                    !.base = FALSE,
                                    !.shutdownC = TRUE,
                                    !.isShutdown = TRUE,
                                    !.mu = 0]]
           /\ hist' = [hist EXCEPT
                         !.shutdowns[k] = @ + 1,
                         !.unjustified = @ \/ (pd[k].refs > 0 /\ ~done)]
  /\ pc' = [pc EXCEPT ![t] = IF t \in Callers THEN "idle" ELSE "exit"]
  /\ cur' = [cur EXCEPT ![t] = 0]
  /\ UNCHANGED <<done, dispatcherMu, dispatcher, nDisp, held, calls>>

\* shutdownWhenDeviceIsDone: the select on the device's DoneC and on
\* shutdownC.
GoSelect(k) ==
  /\ pc[Goroutine(k)] = "select"
  /\ \/ /\ done
        /\ pc' = [pc EXCEPT ![Goroutine(k)] = "lock"]
        /\ cur' = cur
     \/ /\ pd[k].shutdownC
        /\ pc' = [pc EXCEPT ![Goroutine(k)] = "exit"]
        /\ cur' = [cur EXCEPT ![Goroutine(k)] = 0]
  /\ UNCHANGED <<done, dispatcherMu, dispatcher, nDisp, pd, held, calls,
                 hist>>

\* shutdownWhenDeviceIsDone after DoneC: pd.mu.Lock(), shutdownLocked().
GoLock(k) ==
  /\ pc[Goroutine(k)] = "lock"
  /\ pd[k].mu = 0
  /\ IF pd[k].isShutdown
     THEN /\ pc' = [pc EXCEPT ![Goroutine(k)] = "exit"]
          /\ cur' = [cur EXCEPT ![Goroutine(k)] = 0]
          /\ pd' = pd
     ELSE /\ pc' = [pc EXCEPT ![Goroutine(k)] = "clear"]
          /\ pd' = [pd EXCEPT ![k].mu = Goroutine(k)]
          /\ cur' = cur
  /\ UNCHANGED <<done, dispatcherMu, dispatcher, nDisp, held, calls, hist>>

(***************************************************************************)
(* Discovery Registry.  Every operation runs under reg.mu; a thread keeps  *)
(* the mutex over several steps only in Observe, when the send of the new  *)
(* deadline on the entry's updateExpirationC has to wait.  Each entry has  *)
(* a lifecycle task.  Time is a counter; a task's receive of a deadline,   *)
(* its reading of the clock and the arming of its timer are one step, so   *)
(* a timer armed for a deadline fires from that deadline on.               *)
(***************************************************************************)
\* The threads that call the Registry.  Its operations run under reg.mu from
\* beginning to end, except that Observe reads the clock before it locks.
Clients == {1}

\* One entry per Observe call, and the one a behaviour may begin with.
Entries == 1..(MaxObserves + 1)

DeviceIDs == {1, 2}

Expirations == {0, 2}

\* The lifecycle task of entry e.
Lifecycle(e) == Cardinality(Clients) + e

NoTimer == 0 - 1

NoEntry ==
  [deviceID |-> 0, done |-> FALSE, ch |-> <<>>, closed |-> FALSE,
   timer |-> NoTimer, pc |-> "none", cause |-> "none", observed |-> 0,
   expires |-> 0, promised |-> 0, doneAt |-> NoTimer]

IdleClient == [pc |-> "idle", id |-> 0, now |-> 0]

RegistryInit ==
  /\ now = 0
  /\ \E x \in Expirations :
       reg = [Expiration |-> x, mu |-> 0, devices |-> [i \in DeviceIDs |-> 0]]
  /\ nEntries = 0
  /\ entry = [e \in Entries |-> NoEntry]
  /\ client = [c \in Clients |-> IdleClient]
  /\ nObserves = 0

RegistryQuiet ==
  /\ now = 0
  /\ reg = [Expiration |-> 0, mu |-> 0, devices |-> [i \in DeviceIDs |-> 0]]
  /\ nEntries = 0
  /\ entry = [e \in Entries |-> NoEntry]
  /\ client = [c \in Clients |-> IdleClient]
  /\ nObserves = 0

\* Time passes.
Tick ==
  /\ now < MaxTime
  /\ now' = now + 1
  /\ UNCHANGED <<reg, nEntries, entry, client, nObserves>>

\* The entries that are in reg.devices.
Registered(devs) == {e \in Entries : \E i \in DeviceIDs : devs[i] = e}

\* Registry.Devices: the devices of reg.devices that are not done.
Devices == {e \in Registered(reg.devices) : ~entry[e].done}

\* unregisterEntryLocked on <<devices, entries>>: unless another entry (or
\* none) is registered under e's ID, close updateExpirationC and delete e.
unregisterEntryLocked(st, e) ==
  IF st.devices[st.entry[e].deviceID] # e
  THEN st
  ELSE [devices |-> [st.devices EXCEPT ![st.entry[e].deviceID] = 0],
        entry |-> [st.entry EXCEPT ![e].closed = TRUE]]

\* unregisterEntryLocked for every entry of the set es; they have different
\* IDs, so the order does not matter.
unregisterAllLocked(st, es) ==
  [devices |-> [i \in DeviceIDs |->
                  IF st.devices[i] \in es THEN 0 ELSE st.devices[i]],
   entry |-> [e \in Entries |->
                IF e \in es THEN [st.entry[e] EXCEPT !.closed = TRUE]
                ELSE st.entry[e]]]

\* unregisterDoneEntriesLocked.
unregisterDoneEntriesLocked(st) ==
  unregisterAllLocked(st, {e \in Registered(st.devices) : st.entry[e].done})

\* Registry.Observe begins: observeImpl reads the clock, then asks for
\* reg.mu.
ObserveBegin(c) ==
  /\ client[c].pc = "idle"
  /\ nObserves < MaxObserves
  /\ nObserves' = nObserves + 1
  /\ \E i \in DeviceIDs :
       client' = [client EXCEPT ![c] = [pc |-> "observe", id |-> i,
                                        now |-> now]]
  /\ UNCHANGED <<now, reg, nEntries, entry>>

\* The timer of entry en has fired at time t.
TimerFired_Never(en, t) == FALSE

TimerFired(en, t) == en.timer # NoTimer /\ t >= en.timer

\* An observation of entry en at time t comes before en's expiration timer
\* has fired: the lifecycle task is in its loop with its timer armed, and the
\* timer has not run out.
BeforeTimerFired(en, t) ==
  en.pc = "select" /\ en.timer # NoTimer /\ ~TimerFired(en, t)

\* The send of updateState on the channel of entry en.
CanSend(en) == Len(en.ch) < UpdateExpirationCap

\* observeImpl under reg.mu: unregister the done entries, find or create
\* the entry, and updateState; the send finishes the call when the channel
\* has room, and otherwise waits with reg.mu held.
ObserveLocked(c) ==
  /\ client[c].pc = "observe"
  /\ reg.mu = 0
  /\ LET i == client[c].id
         st0 == unregisterDoneEntriesLocked(
                  [devices |-> reg.devices, entry |-> entry])
         isNew == st0.devices[i] = 0
         e == IF isNew THEN nEntries + 1 ELSE st0.devices[i]
         en0 == IF isNew
                THEN [NoEntry EXCEPT !.deviceID = i, !.pc = "select"]
                ELSE st0.entry[e]
         expires == client[c].now + reg.Expiration
         en1 == [en0 EXCEPT !.observed = @ + 1, !.expires = expires,
                            !.promised =
                              IF isNew \/ BeforeTimerFired(en0, now)
                              THEN expires ELSE @]
         sends == reg.Expiration > 0
         blocked == sends /\ ~CanSend(en1)
         en2 == IF sends /\ ~blocked
                THEN [en1 EXCEPT !.ch = Append(@, expires)]
                ELSE en1
     IN  /\ nEntries' = IF isNew THEN e ELSE nEntries
         /\ entry' = [st0.entry EXCEPT ![e] = en2]
         /\ reg' = [reg EXCEPT !.devices = [st0.devices EXCEPT ![i] = e],
                               !.mu = IF blocked THEN c ELSE 0]
         /\ client' = [client EXCEPT ![c] =
                         IF blocked THEN [@ EXCEPT !.pc = "send"]
                         ELSE IdleClient]
  /\ UNCHANGED <<now, nObserves>>

\* The waiting send of updateState goes through; observeImpl returns.
ObserveSend(c) ==
  /\ client[c].pc = "send"
  /\ LET e == reg.devices[client[c].id]
     IN  /\ CanSend(entry[e])
         /\ entry' = [entry EXCEPT ![e].ch = Append(@, entry[e].expires)]
  /\ reg' = [reg EXCEPT !.mu = 0]
  /\ client' = [client EXCEPT ![c] = IdleClient]
  /\ UNCHANGED <<now, nEntries, nObserves>>

\* Registry.Unregister(d), d the device of entry a: the entry registered
\* under d's ID is marked done and unregistered.
UnregisterDevice(c, a) ==
  /\ client[c].pc = "idle"
  /\ reg.mu = 0
  /\ a \in 1..nEntries
  /\ LET e == reg.devices[entry[a].deviceID]
         st == unregisterEntryLocked(
                 [devices |-> reg.devices,
                  entry |-> [entry EXCEPT ![e].done = TRUE]], e)
     IN  /\ e # 0
         /\ reg' = [reg EXCEPT !.devices = st.devices]
         /\ entry' = st.entry
  /\ UNCHANGED <<now, nEntries, client, nObserves>>

Unregister(c) == \E a \in Entries : UnregisterDevice(c, a)

\* Registry.Shutdown: unregisterEntryLocked for every registered entry.
Shutdown(c) ==
  /\ client[c].pc = "idle"
  /\ reg.mu = 0
  /\ Registered(reg.devices) # {}
  /\ LET st == unregisterAllLocked(
                 [devices |-> reg.devices, entry |-> entry],
                 Registered(reg.devices))
     IN  /\ reg' = [reg EXCEPT !.devices = st.devices]
         /\ entry' = st.entry
  /\ UNCHANGED <<now, nEntries, client, nObserves>>

\* manageEntryLifecycle leaves its loop; the deferred t.Stop() runs.
Leave(en, cause) ==
  [en EXCEPT !.pc = "markdone", !.cause = cause, !.timer = NoTimer]

\* manageEntryLifecycle: one round of the select.
LifecycleSelect(e) ==
  /\ entry[e].pc = "select"
  /\ \/ /\ entry[e].done
        /\ entry' = [entry EXCEPT ![e] = Leave(@, "done")]
     \/ /\ TimerFired(entry[e], now)
        /\ entry' = [entry EXCEPT ![e] = Leave(@, "timer")]
     \/ /\ entry[e].ch # <<>>
        /\ LET expireTime == Head(entry[e].ch)
               en == [entry[e] EXCEPT !.ch = Tail(@)]
           IN  entry' = [entry EXCEPT ![e] =
                 IF expireTime - now < 0
                 THEN Leave(en, "late")
                 ELSE [en EXCEPT !.timer = expireTime]]
     \/ /\ entry[e].ch = <<>>
        /\ entry[e].closed
        /\ entry' = [entry EXCEPT ![e] = Leave(@, "closed")]
  /\ UNCHANGED <<now, reg, nEntries, client, nObserves>>

\* The deferred function of manageEntryLifecycle: e.device.MarkDone().
\* doneAt keeps the time at which the task closed the device's doneC.
LifecycleMarkDone(e) ==
  /\ entry[e].pc = "markdone"
  /\ entry' = [entry EXCEPT ![e].done = TRUE, ![e].pc = "unregister",
                            ![e].doneAt = IF entry[e].done THEN @ ELSE now]
  /\ UNCHANGED <<now, reg, nEntries, client, nObserves>>

\* The deferred function of manageEntryLifecycle: e.reg.unregisterEntry(e).
\* The task ends, and nothing refers to the entry's channel any more.
LifecycleUnregister(e) ==
  /\ entry[e].pc = "unregister"
  /\ reg.mu = 0
  /\ LET st == unregisterEntryLocked(
                 [devices |-> reg.devices, entry |-> entry], e)
     IN  /\ reg' = [reg EXCEPT !.devices = st.devices]
         /\ entry' = [st.entry EXCEPT ![e].pc = "exit", ![e].ch = <<>>]
  /\ UNCHANGED <<now, nEntries, client, nObserves>>

(***************************************************************************)
(* Device Registry.  Its maps are functions whose domain is the set of     *)
(* keys that are present.  Every operation runs under reg.mu from          *)
(* beginning to end; Add first checks the registration under the read      *)
(* lock and then takes the write lock.  A device's ordinal and done signal *)
(* are changed by the device's owner.                                      *)
(***************************************************************************)
\* The devices that are added, with the ID of each: the third is another
\* device with the ID of the first.
RegDevices == {1, 2, 3}

IDOf == <<1, 2, 1>>

RegIDs == {1, 2}

Ordinal(g, c) == [Group |-> g, Controller |-> c]

Ordinals == {Ordinal(0, 0), Ordinal(0, 1), Ordinal(1, 0)}

Adders == {1}

RegEntries == 1..MaxAdds

NoRegEntry ==
  [device |-> 0, deviceID |-> 0, registeredGroup |-> 0,
   registeredOrdinal |-> Ordinal(0, 0), pc |-> "none"]

IdleAdder == [pc |-> "idle", device |-> 0]

EmptyMap == [k \in {} |-> {}]

DeviceRegistryInit ==
  /\ dev \in [RegDevices -> [ordinal : Ordinals, done : {FALSE}]]
  /\ dreg = [devices |-> [i \in RegIDs |-> 0], groupMap |-> EmptyMap,
             ordinalMap |-> EmptyMap]
  /\ dentry = [e \in RegEntries |-> NoRegEntry]
  /\ adder = [a \in Adders |-> IdleAdder]
  /\ nAdds = 0

DeviceRegistryQuiet ==
  /\ dev = [d \in RegDevices |-> [ordinal |-> Ordinal(0, 0), done |-> FALSE]]
  /\ dreg = [devices |-> [i \in RegIDs |-> 0], groupMap |-> EmptyMap,
             ordinalMap |-> EmptyMap]
  /\ dentry = [e \in RegEntries |-> NoRegEntry]
  /\ adder = [a \in Adders |-> IdleAdder]
  /\ nAdds = 0

\* m[k] of a Go map of sets: the empty set when k is not present.
MapGet(m, k) == IF k \in DOMAIN m THEN m[k] ELSE {}

\* m[k][e] = struct{}{}, the set made when k is not present.
MapInsert(m, k, e) ==
  [x \in DOMAIN m \cup {k} |-> IF x = k THEN MapGet(m, k) \cup {e} ELSE m[x]]

\* delete(m[k], e) that leaves an empty m[k] in m.
MapRemove_KeepEmpty(m, k, e) ==
  IF k \notin DOMAIN m THEN m ELSE [m EXCEPT ![k] = @ \ {e}]

\* delete(m[k], e), and delete(m, k) when that leaves m[k] empty.
MapRemove(m, k, e) ==
  IF k \notin DOMAIN m THEN m
  ELSE IF m[k] \ {e} = {}
  THEN [x \in DOMAIN m \ {k} |-> m[x]]
  ELSE [m EXCEPT ![k] = @ \ {e}]

\* removeFromGroupMapLocked on st = [reg, entry].
removeFromGroupMapLocked(st, e) ==
  [reg |-> [st.reg EXCEPT !.groupMap =
              MapRemove(@, st.entry[e].registeredGroup, e)],
   entry |-> [st.entry EXCEPT ![e].registeredGroup = 0]]

\* removeFromOrdinalMapLocked leaving the entry in the set.
removeFromOrdinalMapLocked_Keep(st, e) ==
  [st EXCEPT !.entry[e].registeredOrdinal = Ordinal(0, 0)]

\* removeFromOrdinalMapLocked.
removeFromOrdinalMapLocked(st, e) ==
  [reg |-> [st.reg EXCEPT !.ordinalMap =
              MapRemove(@, st.entry[e].registeredOrdinal, e)],
   entry |-> [st.entry EXCEPT ![e].registeredOrdinal = Ordinal(0, 0)]]

\* updateOrdinalLocked, the device's ordinal being ordinal: the registration
\* in the group map, then the registration in the ordinal map.
updateGroup(st, e, isNew, ordinal) ==
  IF isNew \/ st.entry[e].registeredGroup # ordinal.Group
  THEN LET s1 == IF isNew THEN st ELSE removeFromGroupMapLocked(st, e)
       IN  [reg |-> [s1.reg EXCEPT !.groupMap =
                       MapInsert(@, ordinal.Group, e)],
            entry |-> [s1.entry EXCEPT ![e].registeredGroup = ordinal.Group]]
  ELSE st

updateOrdinal(st, e, isNew, ordinal) ==
  IF isNew \/ st.entry[e].registeredOrdinal # ordinal
  THEN LET s1 == IF isNew THEN st ELSE removeFromOrdinalMapLocked(st, e)
       IN  [reg |-> [s1.reg EXCEPT !.ordinalMap = MapInsert(@, ordinal, e)],
            entry |-> [s1.entry EXCEPT ![e].registeredOrdinal = ordinal]]
  ELSE st

updateOrdinalLocked(st, e, isNew) ==
  LET ordinal == dev[st.entry[e].device].ordinal
  IN  updateOrdinal(updateGroup(st, e, isNew, ordinal), e, isNew, ordinal)

\* The device Registry's unregisterEntryLocked.
registryUnregisterEntryLocked_IDOnly(st, e) ==
  IF st.reg.devices[st.entry[e].deviceID] # e
  THEN st
  ELSE [st EXCEPT !.reg.devices[st.entry[e].deviceID] = 0]

registryUnregisterEntryLocked(st, e) ==
  IF st.reg.devices[st.entry[e].deviceID] # e
  THEN st
  ELSE LET s1 == removeFromOrdinalMapLocked(
                   removeFromGroupMapLocked(st, e), e)
       IN  [s1 EXCEPT !.reg.devices[st.entry[e].deviceID] = 0]

\* The device Registry's unregisterDoneEntriesLocked: the entries are taken
\* one after the other.
RECURSIVE registryUnregisterAll(_, _)
registryUnregisterAll(st, es) ==
  IF es = {} THEN st
  ELSE LET e == CHOOSE x \in es : TRUE
       IN  registryUnregisterAll(registryUnregisterEntryLocked(st, e),
                                 es \ {e})

registryUnregisterDoneEntriesLocked(st) ==
  registryUnregisterAll(st,
    {e \in RegEntries :
       /\ \E i \in RegIDs : st.reg.devices[i] = e
       /\ dev[st.entry[e].device].done})

\* checkDeviceRegistration(id).
checkDeviceRegistration(id) ==
  LET e == dreg.devices[id]
      ord == dev[dentry[e].device].ordinal
  IN  /\ e # 0
      /\ e \in MapGet(dreg.groupMap, ord.Group)
      /\ e \in MapGet(dreg.ordinalMap, ord)
      /\ ~dev[dentry[e].device].done

\* Registry.Add(d) begins: the fast path under the read lock.
AddCheck(a) ==
  /\ adder[a].pc = "idle"
  /\ nAdds < MaxAdds
  /\ nAdds' = nAdds + 1
  /\ \E d \in RegDevices :
       adder' = [adder EXCEPT ![a] =
                   IF checkDeviceRegistration(IDOf[d]) THEN IdleAdder
                   ELSE [pc |-> "add", device |-> d]]
  /\ UNCHANGED <<dev, dreg, dentry>>

\* The number of entries made so far.
NumRegEntries(entries) ==
  Cardinality({e \in RegEntries : entries[e].pc # "none"})

\* What Registry.Add(d) does to the registry under the write lock.
addLocked(st, d) ==
  LET id == IDOf[d]
      st0 == registryUnregisterDoneEntriesLocked(st)
      isNew == st0.reg.devices[id] = 0
      e == IF isNew THEN NumRegEntries(st0.entry) + 1
           ELSE st0.reg.devices[id]
      st1 == IF isNew
             THEN [reg |-> [st0.reg EXCEPT !.devices[id] = e],
                   entry |-> [st0.entry EXCEPT ![e] =
                                [NoRegEntry EXCEPT !.device = d,
                                                   !.deviceID = id,
                                                   !.pc = "wait"]]]
             ELSE st0
  IN  updateOrdinalLocked(st1, e, isNew)

\* Registry.Add(d) under the write lock.
AddLocked(a) ==
  /\ adder[a].pc = "add"
  /\ LET st == addLocked([reg |-> dreg, entry |-> dentry], adder[a].device)
     IN  /\ dreg' = st.reg
         /\ dentry' = st.entry
  /\ adder' = [adder EXCEPT ![a] = IdleAdder]
  /\ UNCHANGED <<dev, nAdds>>

\* The device Registry's manageEntryLifecycle: once the device is done,
\* unregisterEntry.
RegistryLifecycle(e) ==
  /\ dentry[e].pc = "wait"
  /\ dev[dentry[e].device].done
  /\ LET st == registryUnregisterEntryLocked(
                 [reg |-> dreg, entry |-> dentry], e)
     IN  /\ dreg' = st.reg
         /\ dentry' = [st.entry EXCEPT ![e].pc = "exit"]
  /\ UNCHANGED <<dev, adder, nAdds>>

\* The owner of device d closes its doneC.
DeviceDone(d) ==
  /\ ~dev[d].done
  /\ dev' = [dev EXCEPT ![d].done = TRUE]
  /\ UNCHANGED <<dreg, dentry, adder, nAdds>>

\* The ordinal of device d changes.
SetOrdinal(d) ==
  /\ \E o \in Ordinals \ {dev[d].ordinal} :
       dev' = [dev EXCEPT ![d].ordinal = o]
  /\ UNCHANGED <<dreg, dentry, adder, nAdds>>

\* Registry.Get(id): the device, or 0 for nil.
Get(id) ==
  LET e == dreg.devices[id]
  IN  IF e = 0 THEN 0
      ELSE IF dev[dentry[e].device].done THEN 0
      ELSE dentry[e].device

\* Registry.GetUniqueOrdinal(o): the device, or 0 for nil.
GetUniqueOrdinal_AnyOne(o) ==
  LET emap == MapGet(dreg.ordinalMap, o)
  IN  IF emap # {}
      THEN LET e == CHOOSE x \in emap : TRUE
           IN  IF dev[dentry[e].device].done THEN 0 ELSE dentry[e].device
      ELSE 0

GetUniqueOrdinal(o) ==
  LET emap == MapGet(dreg.ordinalMap, o)
  IN  IF Cardinality(emap) = 1
      THEN LET e == CHOOSE x \in emap : TRUE
           IN  IF dev[dentry[e].device].done THEN 0 ELSE dentry[e].device
      ELSE 0

\* sort.Slice by ID of a set of devices, as a sequence.
RECURSIVE SortByID(_)
SortByID(devs) ==
  IF devs = {} THEN <<>>
  ELSE LET d == CHOOSE x \in devs : \A y \in devs :
                  IDOf[x] < IDOf[y] \/ (IDOf[x] = IDOf[y] /\ x <= y)
       IN  <<d>> \o SortByID(devs \ {d})

\* devicesForGroupLocked keeping the devices that are done.
devicesForGroupLocked_All(group) ==
  SortByID({dentry[e].device : e \in MapGet(dreg.groupMap, group)})

\* devicesForGroupLocked(group): the devices of the group's entries that
\* are not done, sorted by ID; <<>> for nil.
devicesForGroupLocked(group) ==
  SortByID({dentry[e].device :
              e \in {x \in MapGet(dreg.groupMap, group) :
                       ~dev[dentry[x].device].done}})

\* Registry.DevicesForGroup(group).
DevicesForGroup(group) == devicesForGroupLocked(group)

\* Registry.AllGroups(): per group that has devices to return, its devices;
\* the function without keys also stands for nil.
AllGroups ==
  LET groups == {g \in DOMAIN dreg.groupMap : devicesForGroupLocked(g) # <<>>}
  IN  [g \in groups |-> devicesForGroupLocked(g)]

(***************************************************************************)
(* Router (device/router.go) over the device Registry.  A packet is the    *)
(* number of the Route call that carries it.                               *)
(***************************************************************************)
RouteListeners == {1, 2}

Routers == {1}

\* The devices that are in the Router's Registry.
RoutedDevices == {1, 2}

Conns == 1..MaxRoutes

\* InvalidOrdinal() and Ordinal.IsValid.
InvalidOrdinal == Ordinal(0 - 1, 0 - 1)

IsValid(o) == o.Group >= 0 /\ o.Controller >= 0

\* An ID that no device has.
NoSuchID == 3

RouteOrdinals == {InvalidOrdinal, Ordinal(0, 0), Ordinal(0, 1)}

RouteIDs == RegIDs \cup {NoSuchID}

NoConn == [device |-> 0, once |-> FALSE, closes |-> 0, pc |-> "none"]

IdleRoute ==
  [pc |-> "idle", ordinal |-> InvalidOrdinal, id |-> NoSuchID, pkt |-> 0,
   d |-> 0, rc |-> 0, visited |-> {}, any |-> {}, all |-> {},
   notified |-> [l \in RouteListeners |-> 0], passed |-> {},
   result |-> "none"]

\* Route returns: its locals are gone, its result stays.
RouteReturned(result) == [IdleRoute EXCEPT !.result = result]

RouterInit ==
  /\ listeners = {}
  /\ connections = [d \in RegDevices |-> 0]
  /\ rconn = [k \in Conns |-> NoConn]
  /\ route = [c \in Routers |-> IdleRoute]
  /\ nRoutes = 0
  /\ nShutdowns = 0

RouterQuiet == RouterInit

\* routerConnection.shutdown: shutdownOnce.Do(sender.Close).
shutdown_NoOnce(rcs, k) ==
  [rcs EXCEPT ![k].once = TRUE, ![k].closes = @ + 1]

shutdown(rcs, k) ==
  IF rcs[k].once THEN rcs
  ELSE [rcs EXCEPT ![k].once = TRUE, ![k].closes = @ + 1]

\* unregisterConnectionLocked for each device of ds, one after the other.
RECURSIVE unregisterConnections(_, _)
unregisterConnections(st, devs) ==
  IF devs = {} THEN st
  ELSE LET d == CHOOSE x \in devs : TRUE
       IN  unregisterConnections(
             [conns |-> [st.conns EXCEPT ![d] = 0],
              rconn |-> shutdown(st.rconn, st.conns[d])],
             devs \ {d})

\* clearDoneLocked: unregister the connections whose device is done.
clearDoneLocked(st) ==
  unregisterConnections(st,
    {d \in RegDevices : st.conns[d] # 0 /\ dev[d].done})

\* Router.AddListener and Router.RemoveListener.  A Range of the listeners
\* that is under way may or may not see the change: any is what it may
\* visit, all is what it must visit.
AddListener(l) ==
  /\ l \notin listeners
  /\ listeners' = listeners \cup {l}
  /\ route' = [c \in Routers |->
                 IF route[c].pc = "dispatch"
                 THEN [route[c] EXCEPT !.any = @ \cup {l}]
                 ELSE route[c]]
  /\ UNCHANGED <<connections, rconn, nRoutes, nShutdowns>>

RemoveListener(l) ==
  /\ l \in listeners
  /\ listeners' = listeners \ {l}
  /\ route' = [c \in Routers |->
                 IF route[c].pc = "dispatch"
                 THEN [route[c] EXCEPT !.all = @ \ {l}]
                 ELSE route[c]]
  /\ UNCHANGED <<connections, rconn, nRoutes, nShutdowns>>

\* Route's first lookup: the device, or 0 for nil.
lookupOrdinal_Skip(o) == 0

lookupOrdinal(o) == IF IsValid(o) THEN GetUniqueOrdinal(o) ELSE 0

\* Route(ordinal, id, pkt) begins: Registry.GetUniqueOrdinal when the
\* ordinal is valid.  The arguments ordinal and id are kept until the
\* device is found.
RouteOrdinal(c) ==
  /\ route[c].pc = "idle"
  /\ nRoutes < MaxRoutes
  /\ nRoutes' = nRoutes + 1
  /\ \E o \in RouteOrdinals, id \in RouteIDs :
       LET d == lookupOrdinal(o)
       IN  route' = [route EXCEPT ![c] =
                       [IdleRoute EXCEPT !.pc = IF d = 0 THEN "get" ELSE "conn",
                                         !.ordinal = o,
                                         !.id = id,
                                         !.pkt = nRoutes + 1,
                                         !.d = d]]
  /\ UNCHANGED <<listeners, connections, rconn, nShutdowns>>

\* Route: Registry.Get(id), and ErrNoRoute when that finds nothing.
RouteGet(c) ==
  /\ route[c].pc = "get"
  /\ LET id == route[c].id
         d == IF id \in RegIDs THEN Get(id) ELSE 0
     IN  route' = [route EXCEPT ![c] =
                     IF d = 0 THEN RouteReturned("ErrNoRoute")
                     ELSE [@ EXCEPT !.pc = "conn", !.d = d]]
  /\ UNCHANGED <<listeners, connections, rconn, nRoutes, nShutdowns>>

\* getOrCreateConnection, the fast path under the read lock.
RouteFast(c) ==
  /\ route[c].pc = "conn"
  /\ LET d == route[c].d
         rc == connections[d]
     IN  route' = [route EXCEPT ![c] =
                     IF rc # 0 /\ ~dev[d].done
                     THEN [@ EXCEPT !.pc = "dispatch", !.rc = rc,
                                    !.ordinal = InvalidOrdinal,
                                    !.id = NoSuchID,
                                    !.any = listeners, !.all = listeners]
                     ELSE [@ EXCEPT !.pc = "slow",
                                    !.ordinal = InvalidOrdinal,
                                    !.id = NoSuchID]]
  /\ UNCHANGED <<listeners, connections, rconn, nRoutes, nShutdowns>>

\* The number of connections made so far.
NumConns == Cardinality({k \in Conns : rconn[k].pc # "none"})

\* getOrCreateConnection, the slow path under the write lock.  d.Sender()
\* may fail.
RouteSlow(c) ==
  /\ route[c].pc = "slow"
  /\ LET d == route[c].d
         st == clearDoneLocked([conns |-> connections, rconn |-> rconn])
     IN  IF st.conns[d] # 0
         THEN /\ connections' = st.conns
              /\ rconn' = st.rconn
              /\ route' = [route EXCEPT ![c] =
                             [@ EXCEPT !.pc = "dispatch", !.rc = st.conns[d],
                                       !.any = listeners, !.all = listeners]]
         ELSE \E senderOk \in BOOLEAN :
                IF senderOk
                THEN LET k == NumConns + 1
                     IN  /\ connections' = [st.conns EXCEPT ![d] = k]
                         /\ rconn' = [st.rconn EXCEPT ![k] =
                                        [NoConn EXCEPT !.device = d,
                                                       !.pc = "wait"]]
                         /\ route' = [route EXCEPT ![c] =
                                        [@ EXCEPT !.pc = "dispatch", !.rc = k,
                                                  !.any = listeners,
                                                  !.all = listeners]]
                ELSE /\ connections' = st.conns
                     /\ rconn' = st.rconn
                     /\ route' = [route EXCEPT ![c] =
                                    RouteReturned("SenderError")]
  /\ UNCHANGED <<listeners, nRoutes, nShutdowns>>

\* dispatchPacketToListeners: Range calls HandlePacket(rc.device, pkt) of
\* one more listener.
RouteDispatch(c, l) ==
  /\ route[c].pc = "dispatch"
  /\ l \in route[c].any \ route[c].visited
  /\ route' = [route EXCEPT ![c] =
                 [@ EXCEPT !.visited = @ \cup {l},
                           !.notified[l] = @ + 1,
                           !.passed = @ \cup {<<rconn[route[c].rc].device,
                                                route[c].pkt>>}]]
  /\ UNCHANGED <<listeners, connections, rconn, nRoutes, nShutdowns>>

\* Range is over, and rc.sendPacket(pkt) succeeds or fails.
RouteSend(c) ==
  /\ route[c].pc = "dispatch"
  /\ route[c].all \subseteq route[c].visited
  /\ \E sendOk \in BOOLEAN :
       route' = [route EXCEPT ![c] =
                   RouteReturned(IF sendOk THEN "nil" ELSE "SendError")]
  /\ UNCHANGED <<listeners, connections, rconn, nRoutes, nShutdowns>>

\* Router.Shutdown: unregister every connection.
RouterShutdown ==
  /\ nShutdowns < MaxShutdowns
  /\ nShutdowns' = nShutdowns + 1
  /\ LET st == unregisterConnections(
                 [conns |-> connections, rconn |-> rconn],
                 {d \in RegDevices : connections[d] # 0})
     IN  /\ connections' = st.conns
         /\ rconn' = st.rconn
  /\ UNCHANGED <<listeners, route, nRoutes>>

\* manageConnectionLifecycle: once the device is done, shutdown.
ConnectionLifecycle(k) ==
  /\ rconn[k].pc = "wait"
  /\ dev[rconn[k].device].done
  /\ rconn' = [shutdown(rconn, k) EXCEPT ![k].pc = "exit"]
  /\ UNCHANGED <<listeners, connections, route, nRoutes, nShutdowns>>

(***************************************************************************)
(* Player (package replay): the playback task of one stream file, and the  *)
(* thread that calls Play, Pause, Resume, Status and Stop.  Times and      *)
(* durations are in half seconds.                                          *)
(***************************************************************************)
\* The offsets of the events of the stream file: 0s, 1s and 2s.
EventOffsets == <<0, 2, 4>>

Events == 1..Len(EventOffsets)

\* The zero time.Time, and a nil command.
NoTime == 0 - 1

NoCommand == "none"

\* Nothing has happened in the round.
NoneSent ==
  [sentAt |-> [i \in Events |-> NoTime],
   delta |-> [i \in Events |-> NoTime],
   dropped |-> {},
   cmds |-> <<>>]

\* A Player on which Play has not been called: playback is nil.
PlayerInit ==
  /\ clock = 0
  /\ pp = [pc |-> "idle", idx |-> 1, startTime |-> 0, realtimeOffset |-> 0,
           pausedStart |-> NoTime, timerRunning |-> FALSE]
  /\ command = NoCommand
  /\ nCmds = 0
  /\ nRounds = 0
  /\ played = NoneSent
  /\ lease = FALSE
  /\ ctl = [pc |-> "idle", playback |-> FALSE, ctxDone |-> FALSE,
            finishedC |-> FALSE, commandC |-> FALSE, statusC |-> FALSE,
            srClosed |-> FALSE, result |-> "none"]

PlayerQuiet == PlayerInit

\* Time passes.  The clock starts with the first round.
PlayerTick ==
  /\ pp.pc \notin {"idle", "start"}
  /\ clock < MaxClock
  /\ clock' = clock + 1
  /\ UNCHANGED <<pp, command, nCmds, nRounds, played, lease, ctl>>

\* Player.Play on a Player that is not playing: the playerPlayback is made
\* and its task started.
Play ==
  /\ ctl.pc = "idle"
  /\ ~ctl.playback
  /\ pp.pc = "idle"
  /\ ctl' = [ctl EXCEPT !.playback = TRUE]
  /\ pp' = [pp EXCEPT !.pc = "start"]
  /\ UNCHANGED <<clock, command, nCmds, nRounds, played, lease>>

\* The calling thread is in no call, and the Player is playing.
CanCall ==
  /\ ctl.pc = "idle"
  /\ ctl.playback
  /\ command = NoCommand
  /\ nCmds < MaxCommands

\* Player.Pause and Player.Resume: sendCommand offers the command on
\* commandC until the playback task takes it or finishedC is closed.
CallPause ==
  /\ CanCall
  /\ command' = "pause"
  /\ nCmds' = nCmds + 1
  /\ UNCHANGED <<clock, pp, nRounds, played, lease, ctl>>

CallResume ==
  /\ CanCall
  /\ command' = "resume"
  /\ nCmds' = nCmds + 1
  /\ UNCHANGED <<clock, pp, nRounds, played, lease, ctl>>

\* Player.Status while playback is not nil: sendCommand offers the status
\* command.
CallStatus ==
  /\ CanCall
  /\ command' = "status"
  /\ nCmds' = nCmds + 1
  /\ ctl' = [ctl EXCEPT !.pc = "status", !.result = "none"]
  /\ UNCHANGED <<clock, pp, nRounds, played, lease>>

\* Player.Status while playback is nil returns nil.
StatusNotPlaying ==
  /\ ctl.pc = "idle"
  /\ ~ctl.playback
  /\ nCmds < MaxCommands
  /\ nCmds' = nCmds + 1
  /\ ctl' = [ctl EXCEPT !.result = "nil"]
  /\ UNCHANGED <<clock, pp, command, nRounds, played, lease>>

\* sendCommand receives from finishedC: the command is given up.
SendCommandFinished ==
  /\ command # NoCommand
  /\ ctl.finishedC
  /\ command' = NoCommand
  /\ UNCHANGED <<clock, pp, nCmds, nRounds, played, lease, ctl>>

\* The select of Player.Status after sendCommand has returned: the Context
\* is done, or the status is on statusC.
StatusReturn ==
  /\ ctl.pc = "status"
  /\ command = NoCommand
  /\ \E got \in BOOLEAN :
       /\ IF got THEN ctl.statusC ELSE ctl.ctxDone
       /\ ctl' = [ctl EXCEPT !.pc = "idle", !.statusC = FALSE,
                             !.result = IF got THEN "status" ELSE "nil"]
  /\ UNCHANGED <<clock, pp, command, nCmds, nRounds, played, lease>>

\* processCommand.
processCommand_Forget(p, c) ==
  IF c = "pause"
  THEN [p EXCEPT !.pausedStart = clock]
  ELSE [p EXCEPT !.pausedStart = NoTime]

processCommand(p, c) ==
  IF c = "pause"
  THEN [p EXCEPT !.pausedStart = clock]
  ELSE IF c = "resume" /\ p.pausedStart # NoTime
       THEN [p EXCEPT !.realtimeOffset = @ + (clock - p.pausedStart),
                      !.pausedStart = NoTime]
       ELSE p

\* What processCommand does to the playback lease l.
processCommandLease_Keep(p, c, l) == l

processCommandLease(p, c, l) ==
  IF c = "pause" THEN FALSE
  ELSE IF c = "resume" /\ p.pausedStart # NoTime THEN TRUE
  ELSE l

\* waitForNextCommandOrEvent receives a command: resetTimer, processCommand.
ProcessCommand ==
  /\ pp.pc = "wait"
  /\ command # NoCommand
  /\ pp' = processCommand([pp EXCEPT !.timerRunning = FALSE], command)
  /\ lease' = processCommandLease(pp, command, lease)
  /\ command' = NoCommand
  /\ played' = IF command = "status" THEN played
               ELSE [played EXCEPT !.cmds = Append(@, <<command, clock>>)]
  /\ ctl' = IF command = "status" THEN [ctl EXCEPT !.statusC = TRUE] ELSE ctl
  /\ UNCHANGED <<clock, nCmds, nRounds>>

\* streamNow and nextEventTime of waitForNextCommandOrEvent.
streamNow == clock - pp.realtimeOffset

nextEventTime == pp.startTime + EventOffsets[pp.idx]

\* The next event is in the future: the timer is started.  It fires
\* nextEventTime - streamNow later, which is at
\* nextEventTime + realtimeOffset whenever it is started.
StartTimer ==
  /\ pp.pc = "wait"
  /\ pp.pausedStart = NoTime
  /\ ~pp.timerRunning
  /\ nextEventTime > streamNow
  /\ pp' = [pp EXCEPT !.timerRunning = TRUE]
  /\ UNCHANGED <<clock, command, nCmds, nRounds, played, lease, ctl>>

\* The select of waitForNextCommandOrEvent can receive from timerC: the
\* player is not paused, and the timer has fired or the next event is now
\* or in the past.
timerC ==
  /\ pp.pausedStart = NoTime
  /\ IF pp.timerRunning
     THEN clock >= nextEventTime + pp.realtimeOffset
     ELSE nextEventTime <= streamNow

\* playRound's test of the delta that waitForNextCommandOrEvent returned.
TooOld(delta) == delta + MaxLagAge < 0

\* playRound reads event i: ReadEvent returns it, or io.EOF after the last
\* event, or an error that ends the playback.
ReadEvent(p, i, err) ==
  IF err THEN [p EXCEPT !.pc = "closing"]
  ELSE IF i <= Len(EventOffsets) THEN [p EXCEPT !.pc = "wait", !.idx = i]
  ELSE [p EXCEPT !.pc = "eof"]

\* waitForNextCommandOrEvent returns, from the timer with delta 0 or at once
\* with the delta by which the event is late, having acquired the lease,
\* and playRound drops the event or calls SendPacket, and reads the next
\* event.
EventReady ==
  /\ pp.pc = "wait"
  /\ timerC
  /\ lease' = TRUE
  /\ LET delta == IF pp.timerRunning THEN 0 ELSE streamNow - nextEventTime
         i == pp.idx
     IN  /\ played' = IF TooOld(delta)
                      THEN [played EXCEPT !.dropped = @ \cup {i},
                                          !.delta[i] = delta]
                      ELSE [played EXCEPT !.sentAt[i] = clock,
                                          !.delta[i] = delta]
         /\ \E err \in BOOLEAN :
              pp' = ReadEvent([pp EXCEPT !.timerRunning = FALSE], i + 1, err)
  /\ UNCHANGED <<clock, command, nCmds, nRounds, ctl>>

\* playUntilStopped begins a round: the stream is reset, and playRound
\* notes the start time and reads the first event.
BeginRound(p, err) ==
  ReadEvent([p EXCEPT !.startTime = clock, !.realtimeOffset = 0], 1, err)

\* The playback task starts: playUntilStopped acquires the lease and, if
\* the Context is not done, begins the first round.
PlayStart ==
  /\ pp.pc = "start"
  /\ lease' = TRUE
  /\ IF ctl.ctxDone
     THEN /\ pp' = [pp EXCEPT !.pc = "closing"]
          /\ UNCHANGED nRounds
     ELSE /\ nRounds' = nRounds + 1
          /\ \E err \in BOOLEAN : pp' = BeginRound(pp, err)
  /\ UNCHANGED <<clock, command, nCmds, played, ctl>>

\* ReadEvent returned io.EOF: playUntilStopped resets the stream and
\* playRound begins the next round.
NextRound ==
  /\ pp.pc = "eof"
  /\ ~ctl.ctxDone
  /\ nRounds < MaxRounds
  /\ nRounds' = nRounds + 1
  /\ \E err \in BOOLEAN : pp' = BeginRound(pp, err)
  /\ played' = NoneSent
  /\ UNCHANGED <<clock, command, nCmds, lease, ctl>>

\* The Context is done when playUntilStopped is about to begin a round.
RoundCancelled ==
  /\ pp.pc = "eof"
  /\ ctl.ctxDone
  /\ pp' = [pp EXCEPT !.pc = "closing"]
  /\ UNCHANGED <<clock, command, nCmds, nRounds, played, lease, ctl>>

\* The select of waitForNextCommandOrEvent receives from c.Done: resetTimer,
\* and on its return the lease is acquired; playRound and playUntilStopped
\* return.
WaitCancelled ==
  /\ pp.pc = "wait"
  /\ ctl.ctxDone
  /\ pp' = [pp EXCEPT !.pc = "closing", !.timerRunning = FALSE,
                      !.pausedStart = NoTime]
  /\ lease' = TRUE
  /\ UNCHANGED <<clock, command, nCmds, nRounds, played, ctl>>

\* The deferred function of playUntilStopped: the timer is stopped, the
\* reader closed and finishedC closed,
PlaybackClose ==
  /\ pp.pc = "closing"
  /\ pp' = [pp EXCEPT !.pc = "release", !.timerRunning = FALSE]
  /\ ctl' = [ctl EXCEPT !.srClosed = TRUE, !.finishedC = TRUE]
  /\ played' = NoneSent
  /\ UNCHANGED <<clock, command, nCmds, nRounds, lease>>

\* then the lease is released,
PlaybackRelease ==
  /\ pp.pc = "release"
  /\ pp' = [pp EXCEPT !.pc = "drain"]
  /\ lease' = FALSE
  /\ UNCHANGED <<clock, command, nCmds, nRounds, played, ctl>>

\* and the commands on commandC are consumed until it is closed.
PlaybackDrain ==
  /\ pp.pc = "drain"
  /\ command # NoCommand
  /\ command' = NoCommand
  /\ UNCHANGED <<clock, pp, nCmds, nRounds, played, lease, ctl>>

PlaybackExit ==
  /\ pp.pc = "drain"
  /\ ctl.commandC
  /\ pp' = [pp EXCEPT !.pc = "finished"]
  /\ UNCHANGED <<clock, command, nCmds, nRounds, played, lease, ctl>>

\* Player.Stop while playback is not nil: the Context is cancelled, and
\* Stop waits for finishedC.
PlayerStop ==
  /\ ctl.pc = "idle"
  /\ ctl.playback
  /\ command = NoCommand
  /\ ctl' = [ctl EXCEPT !.pc = "stop", !.ctxDone = TRUE]
  /\ UNCHANGED <<clock, pp, command, nCmds, nRounds, played, lease>>

\* Stop receives from finishedC, closes commandC and sets playback to nil.
StopReturn ==
  /\ ctl.pc = "stop"
  /\ ctl.finishedC
  /\ ctl' = [ctl EXCEPT !.pc = "idle", !.commandC = TRUE, !.playback = FALSE]
  /\ UNCHANGED <<clock, pp, command, nCmds, nRounds, played, lease>>

(***************************************************************************)
(* Recorder (package replay) over an EventStreamWriter (package            *)
(* streamfile).                                                            *)
(***************************************************************************)
\* Errors: nil, streamfile.ErrEncodingNotSupported, and the errors of the
\* stream's writers and of building the final file.
NoError == 0

ErrEncodingNotSupported == 1

IOErrors == {2, 3}

\* The packets that a Router hands to RecordPacket: strip states, no strip
\* states, and a command.
PacketKinds == {"pixels", "empty", "command"}

NoRecorderCall == [op |-> "none", err |-> NoError, first |-> NoError]

\* A Recorder that has not been started.
RecorderInit ==
  /\ rec = [sw |-> FALSE, recvErr |-> NoError, werr |-> NoError, events |-> 0,
            firstErr |-> NoError, writtenAfter |-> FALSE,
            last |-> NoRecorderCall]
  /\ nRecs = 0
  /\ nStarts = 0

RecorderQuiet == RecorderInit

\* Recorder.Start with a new EventStreamWriter.
RecorderStart ==
  /\ ~rec.sw
  /\ nStarts < MaxStarts
  /\ nStarts' = nStarts + 1
  /\ rec' = [rec EXCEPT !.sw = TRUE, !.werr = NoError, !.events = 0,
                        !.last = [NoRecorderCall EXCEPT !.op = "Start"]]
  /\ UNCHANGED nRecs

\* rawStreamWriter.Write of one event, which fails with error fail or not at
\* all: the bufio, snappy and gzip writers accept no data after an error and
\* return that error again.
rawWrite_NotSticky(w, fail) ==
  IF fail = NoError
  THEN [w |-> [w EXCEPT !.events = @ + 1], err |-> NoError]
  ELSE [w |-> [w EXCEPT !.werr = fail], err |-> fail]

rawWrite(w, fail) ==
  IF w.werr # NoError THEN [w |-> w, err |-> w.werr]
  ELSE IF fail = NoError
       THEN [w |-> [w EXCEPT !.events = @ + 1], err |-> NoError]
       ELSE [w |-> [w EXCEPT !.werr = fail], err |-> fail]

\* EventStreamWriter.WritePacket.
WritePacket(w, kind, fail) ==
  IF kind = "command" THEN [w |-> w, err |-> ErrEncodingNotSupported]
  ELSE IF kind = "empty" THEN [w |-> w, err |-> NoError]
  ELSE rawWrite(w, fail)

\* Recorder.RecordPacket.
RecordPacket ==
  /\ nRecs < MaxRecords
  /\ nRecs' = nRecs + 1
  /\ \E kind \in PacketKinds : \E fail \in {NoError} \cup IOErrors :
       IF ~rec.sw
       THEN rec' = [rec EXCEPT !.last = [NoRecorderCall EXCEPT
                                           !.op = "RecordPacket"]]
       ELSE LET r == WritePacket(rec, kind, fail)
                latch == r.err \notin {NoError, ErrEncodingNotSupported}
            IN  rec' = [r.w EXCEPT
                          !.recvErr = IF latch THEN r.err ELSE @,
                          !.firstErr = IF latch /\ @ = NoError
                                       THEN r.err ELSE @,
                          !.writtenAfter =
                             @ \/ (rec.firstErr # NoError
                                     /\ r.w.events # rec.events),
                          !.last = [op |-> "RecordPacket", err |-> r.err,
                                    first |-> NoError]]
  /\ UNCHANGED nStarts

\* EventStreamWriter.Close: the error of the writers if they have one, and
\* otherwise nil or an error of building the final file.
CloseErrors(w) ==
  IF w.werr # NoError THEN {w.werr} ELSE {NoError} \cup IOErrors

\* Recorder.Stop.
RecorderStop ==
  /\ IF ~rec.sw
     THEN rec' = [rec EXCEPT !.last = [NoRecorderCall EXCEPT !.op = "Stop"]]
     ELSE \E err \in CloseErrors(rec) :
            rec' = [rec EXCEPT
                      !.sw = FALSE, !.recvErr = NoError, !.werr = NoError,
                      !.events = 0,
                      !.firstErr = NoError, !.writtenAfter = FALSE,
                      !.last = [op |-> "Stop",
                                err |-> IF err = NoError THEN rec.recvErr
                                        ELSE err,
                                first |-> rec.firstErr]]
  /\ UNCHANGED <<nRecs, nStarts>>

(***************************************************************************)
(* playRound (package replay): the loop over the events of the stream      *)
(* file, with what the stream reader, the wait for the event's time and    *)
(* the sink (Player.SendPacket) answer chosen freely.                       *)
(***************************************************************************)
\* An event without a packet.
NoPacket == 0 - 1

\* pkt.Device, the file-local device index, of the events of the stream
\* file.  ResolveDeviceForIndex knows the indexes 0 and 1.
RoundPackets == <<0, 1, 2, NoPacket, 0>>

KnownDeviceIndexes == {0, 1}

SinkResults == {"nil", "ErrNoRoute", "error"}

PlayRoundInit ==
  rd = [pc |-> "read", idx |-> 0, round |-> 1, noRouteDevices |-> <<>>,
        sent |-> 0, errors |-> 0, dropped |-> 0, err |-> "none"]

PlayRoundQuiet == PlayRoundInit

\* m[k]++ and delete(m, k) on a Go map of counters: a function whose
\* domain is the set of keys that are present.
CounterInc(m, k) ==
  [x \in DOMAIN m \cup {k} |->
     IF x = k THEN (IF k \in DOMAIN m THEN m[k] ELSE 0) + 1 ELSE m[x]]

CounterDelete(m, k) == [x \in DOMAIN m \ {k} |-> m[x]]

\* pp.sr.ReadEvent(): the next event, io.EOF after the last one, or an
\* error.
RoundReadEvent ==
  /\ rd.pc = "read"
  /\ \E err \in BOOLEAN :
       rd' = IF err
             THEN [rd EXCEPT !.pc = "returned", !.err = "error"]
             ELSE IF rd.idx = Len(RoundPackets)
             THEN [rd EXCEPT !.pc = "returned", !.err = "nil"]
             ELSE [rd EXCEPT !.pc = "wait", !.idx = @ + 1]
  /\ UNCHANGED playRoundFrame

\* waitForNextCommandOrEvent returns: the event is due, or is older than
\* MaxLagAge and is dropped, or the round is finished, or the Context is
\* cancelled.
RoundWait ==
  /\ rd.pc = "wait"
  /\ \E w \in {"due", "old", "finished", "cancelled"} :
       rd' = CASE w = "due" -> [rd EXCEPT !.pc = "send"]
               [] w = "old" -> [rd EXCEPT !.pc = "read", !.dropped = @ + 1]
               [] w = "finished" -> [rd EXCEPT !.pc = "returned",
                                               !.err = "nil"]
               [] w = "cancelled" -> [rd EXCEPT !.pc = "returned",
                                                !.err = "cancelled"]
  /\ UNCHANGED playRoundFrame

\* The sending of an event, returning when the sink returns an error.
sendEvent_ReturnOnError(p, decodeOk, r) ==
  IF r = "nil"
  THEN [p EXCEPT !.pc = "read", !.sent = @ + 1,
                 !.noRouteDevices = CounterDelete(@, RoundPackets[p.idx])]
  ELSE [p EXCEPT !.pc = "returned", !.err = "error"]

\* The sending of the event that was read: the packet's device is
\* resolved, the packet is decoded and passed to the sink, whose answer is
\* r.
sendEvent(p, decodeOk, r) ==
  LET device == RoundPackets[p.idx]
      next == [p EXCEPT !.pc = "read"]
  IN  IF device = NoPacket THEN next
      ELSE IF device \notin KnownDeviceIndexes
      THEN [next EXCEPT !.errors = @ + 1]
      ELSE IF ~decodeOk THEN next
      ELSE CASE r = "nil" ->
                  [next EXCEPT !.noRouteDevices = CounterDelete(@, device),
                               !.sent = @ + 1]
             [] r = "ErrNoRoute" ->
                  [next EXCEPT !.noRouteDevices = CounterInc(@, device),
                               !.sent = @ + 1]
             [] OTHER -> [next EXCEPT !.errors = @ + 1]

SendEvent(decodeOk, r) ==
  /\ rd.pc = "send"
  /\ rd' = sendEvent(rd, decodeOk, r)
  /\ UNCHANGED playRoundFrame

RoundSend == \E decodeOk \in BOOLEAN, r \in SinkResults : SendEvent(decodeOk, r)

\* playUntilStopped after playRound has returned: the next round, or the
\* end of the playback on an error or when the Context is cancelled.
RoundReturned ==
  /\ rd.pc = "returned"
  /\ rd' = IF rd.err = "nil" /\ rd.round < MaxRounds
           THEN [rd EXCEPT !.pc = "read", !.idx = 0, !.round = @ + 1,
                           !.err = "none"]
           ELSE [rd EXCEPT !.pc = "stopped",
                           !.errors = IF rd.err = "error" THEN @ + 1 ELSE @]
  /\ UNCHANGED playRoundFrame

\* ---------------------------------------------------------------------------
\* Stream file merge (replay/streamfile): EventStreamConfig.Merge,
\* MetadataBuilder.Merge and MetadataBuilder.sortDeviceList.
\*
\* mrg.disk holds the source streams' metadata files, which Merge only reads.
\* mrg.heap holds the *Metadata objects loaded from them, one per distinct
\* path (mdCache); MetadataBuilder.Merge mutates their event files in place.
\* A *Device is the pair <<path, index>> of the loaded Metadata that owns it
\* and its place in that Metadata's list, a *Metadata_EventFile likewise.
\* Indexes are the Go (0-based) indexes. Failures of the file system are left
\* out: every load, link, write and commit succeeds.

MergePaths == {"a", "b"}

MaxMergeList == 3

MergeIDs == {1, 2, 3}

\* The ordinal of a device: <<>> for none, or <<group, controller>>.
MergeOrdinal(id) == IF id = 1 THEN <<1, 1>> ELSE <<>>

MergeDevice(id) == [Id |-> id, Ordinal |-> MergeOrdinal(id)]

\* sortableDeviceSlice.Less
DeviceLess(di, dj) ==
    IF di.Ordinal = <<>> /\ dj.Ordinal # <<>> THEN TRUE
    ELSE IF di.Ordinal # <<>> /\ dj.Ordinal = <<>> THEN FALSE
    ELSE IF di.Ordinal # <<>> /\ di.Ordinal[1] < dj.Ordinal[1] THEN TRUE
    ELSE IF di.Ordinal # <<>> /\ di.Ordinal[1] > dj.Ordinal[1] THEN FALSE
    ELSE IF di.Ordinal # <<>> /\ di.Ordinal[2] < dj.Ordinal[2] THEN TRUE
    ELSE IF di.Ordinal # <<>> /\ di.Ordinal[2] > dj.Ordinal[2] THEN FALSE
    ELSE di.Id < dj.Id

\* sort.Sort(sortableDeviceSlice(devs)); Less is a total order on devices
\* with distinct IDs, so the outcome does not depend on the algorithm.
RECURSIVE SortDevices(_, _)
SortDevices(devs, val) ==
    IF devs = <<>> THEN <<>>
    ELSE LET m == CHOOSE i \in 1..Len(devs) :
                      \A j \in 1..Len(devs) :
                          j = i \/ DeviceLess(val[devs[i]], val[devs[j]])
         IN  <<devs[m]>> \o
             SortDevices([i \in 1..(Len(devs) - 1) |->
                              IF i < m THEN devs[i] ELSE devs[i + 1]], val)

\* The device list a written metadata file holds for the devices ids:
\* finalize sorts it.
SortedDevices(ids) ==
    LET refs == CHOOSE r \in [1..Cardinality(ids) -> ids] :
                    \A i, j \in 1..Cardinality(ids) : i # j => r[i] # r[j]
        sorted == SortDevices(refs, [id \in ids |-> MergeDevice(id)])
    IN  [i \in 1..Cardinality(ids) |-> MergeDevice(sorted[i])]

\* The device mappings of one event file of a stream with n devices: each
\* device has at most one file-local index (GetDeviceInternalIndex).
FileMappings(n) ==
    { m \in UNION { [1..k -> 0..(n - 1)] : k \in 1..n } :
          \A i, j \in 1..Len(m) : i # j => m[i] # m[j] }

MaxMergeFiles == 2

MaxMergeFileDevices == 2

\* The streams a recording leaves on disk: every device of the list was
\* registered by one event file at least (maybeRegisterDevice). Streams of
\* several event files are kept to MaxMergeFileDevices devices.
SourceStreams ==
    { md \in UNION { UNION {
          [Devices : {SortedDevices(ids)},
           EventFileInfo :
               [1..nf -> [Name : {<<"events">>},
                          DeviceMapping : FileMappings(Cardinality(ids))]]]
          : nf \in 1..MaxMergeFiles } : ids \in (SUBSET MergeIDs) \ {{}} } :
        /\ \A d \in 1..Len(md.Devices) :
               \E f \in 1..Len(md.EventFileInfo) :
                   \E i \in 1..Len(md.EventFileInfo[f].DeviceMapping) :
                       md.EventFileInfo[f].DeviceMapping[i] = d - 1
        /\ Len(md.EventFileInfo) > 1 =>
               Len(md.Devices) <= MaxMergeFileDevices }

NoMetadata == [Devices |-> <<>>, EventFileInfo |-> <<>>]

MergeIdle(disk) ==
    [pc |-> "idle", disk |-> disk, paths |-> <<>>,
     heap |-> [p \in MergePaths |-> NoMetadata],
     mb |-> NoMetadata, k |-> 0, out |-> NoMetadata]

MergeInit == \E disk \in [MergePaths -> SourceStreams] : mrg = MergeIdle(disk)

MergeQuiet == mrg = MergeIdle([p \in MergePaths |-> NoMetadata])

\* *Device and *Metadata_EventFile dereferenced.
DeviceAt(heap, d) == heap[d[1]].Devices[d[2] + 1]

EventFileAt(heap, e) == heap[e[1]].EventFileInfo[e[2]]

\* EventStreamConfig.Merge up to the staging of the event files: each path is
\* loaded once, and the event files of each loaded Metadata are renamed after
\* the first place of its path in the list.
FirstIndex(paths, p) == CHOOSE i \in 1..Len(paths) :
                            paths[i] = p /\ \A j \in 1..(i - 1) : paths[j] # p

LoadAndStage(disk, paths) ==
    [p \in MergePaths |->
        IF \E i \in 1..Len(paths) : paths[i] = p
        THEN [disk[p] EXCEPT !.EventFileInfo =
                 [j \in 1..Len(disk[p].EventFileInfo) |->
                     [disk[p].EventFileInfo[j] EXCEPT
                         !.Name = <<"merged", FirstIndex(paths, p) - 1, j - 1>>]]]
        ELSE NoMetadata]

MergeCall(paths) ==
    /\ mrg.pc = "idle"
    /\ mrg' = [mrg EXCEPT !.pc = "merge", !.paths = paths,
                          !.heap = LoadAndStage(mrg.disk, paths), !.k = 1]
    /\ UNCHANGED mergeFrame

\* MetadataBuilder.maybeRegisterDevice: the index of the device of that ID in
\* mb.Devices (deviceIndexMap), registering d when there is none.
maybeRegisterDevice(mb, heap, d) ==
    LET id == DeviceAt(heap, d).Id
        known == { n \in 1..Len(mb.Devices) : DeviceAt(heap, mb.Devices[n]).Id = id }
    IN  IF known # {}
        THEN [mb |-> mb, deviceIndex |-> (CHOOSE n \in known : TRUE) - 1]
        ELSE [mb |-> [mb EXCEPT !.Devices = Append(mb.Devices, d)],
              deviceIndex |-> Len(mb.Devices)]

assertDevicesCompat(a, b) == a.Id = b.Id

\* The inner loop of MetadataBuilder.Merge from the file-local index i on:
\* the index is resolved in the Metadata the file came from and replaced by
\* the index of that device in mb.Devices.
RECURSIVE mergeDeviceMapping(_, _, _, _)
mergeDeviceMapping(st, p, j, i) ==
    LET md == st.heap[p]
        efi == md.EventFileInfo[j]
    IN  IF st.err \/ i > Len(efi.DeviceMapping) THEN st
        ELSE IF efi.DeviceMapping[i] >= Len(md.Devices)
        THEN [st EXCEPT !.err = TRUE]
        ELSE LET d == <<p, efi.DeviceMapping[i]>>
                 added == maybeRegisterDevice(st.mb, st.heap, d)
                 metaDevice == added.mb.Devices[added.deviceIndex + 1]
             IN  IF ~assertDevicesCompat(DeviceAt(st.heap, d),
                                         DeviceAt(st.heap, metaDevice))
                 THEN [st EXCEPT !.err = TRUE]
                 ELSE mergeDeviceMapping(
                          [st EXCEPT !.mb = added.mb,
                                     !.heap[p].EventFileInfo[j].DeviceMapping[i] =
                                         added.deviceIndex],
                          p, j, i + 1)

RECURSIVE mergeEventFiles(_, _, _)
mergeEventFiles(st, p, j) ==
    IF st.err \/ j > Len(st.heap[p].EventFileInfo) THEN st
    ELSE mergeEventFiles(mergeDeviceMapping(st, p, j, 1), p, j + 1)

\* MetadataBuilder.Merge(md) for the loaded Metadata of path p.
MetadataBuilderMerge(mb, heap, p) ==
    LET st == mergeEventFiles([mb |-> mb, heap |-> heap, err |-> FALSE], p, 1)
    IN  IF st.err THEN st
        ELSE [st EXCEPT !.mb.EventFileInfo =
                 st.mb.EventFileInfo \o
                 [j \in 1..Len(heap[p].EventFileInfo) |-> <<p, j>>]]

MergeMetadata ==
    /\ mrg.pc = "merge"
    /\ mrg.k <= Len(mrg.paths)
    /\ LET st == MetadataBuilderMerge(mrg.mb, mrg.heap, mrg.paths[mrg.k])
       IN  mrg' = IF st.err
                  THEN [mrg EXCEPT !.pc = "failed", !.mb = st.mb, !.heap = st.heap]
                  ELSE [mrg EXCEPT !.mb = st.mb, !.heap = st.heap, !.k = mrg.k + 1]
    /\ UNCHANGED mergeFrame

\* The update of the event files' device maps in sortDeviceList, from the
\* n-th entry of mb.EventFileInfo on.
RECURSIVE remapEventFiles(_, _, _, _)
remapEventFiles(heap, files, newIndexes, n) ==
    IF n > Len(files) THEN heap
    ELSE LET e == files[n]
             dm == EventFileAt(heap, e).DeviceMapping
         IN  remapEventFiles(
                 [heap EXCEPT ![e[1]].EventFileInfo[e[2]].DeviceMapping =
                     [i \in 1..Len(dm) |-> newIndexes[dm[i]]]],
                 files, newIndexes, n + 1)

\* MetadataBuilder.sortDeviceList
sortDeviceList(mb, heap) ==
    LET refs == { mb.Devices[n] : n \in 1..Len(mb.Devices) }
        oldIndexes == [d \in refs |->
                          (CHOOSE n \in 1..Len(mb.Devices) : mb.Devices[n] = d) - 1]
        sorted == SortDevices(mb.Devices, [d \in refs |-> DeviceAt(heap, d)])
        changed == \E i \in 1..Len(sorted) : oldIndexes[sorted[i]] # i - 1
        newIndexes == [o \in 0..(Len(sorted) - 1) |->
                          (CHOOSE i \in 1..Len(sorted) : oldIndexes[sorted[i]] = o) - 1]
    IN  [mb |-> [mb EXCEPT !.Devices = sorted],
         heap |-> IF changed
                  THEN remapEventFiles(heap, mb.EventFileInfo, newIndexes, 1)
                  ELSE heap]

\* MetadataBuilder.Write: finalize, then the metadata is marshalled.
MetadataBuilderWrite(mb, heap) ==
    LET st == sortDeviceList(mb, heap)
    IN  [st |-> st,
         out |-> [Devices |-> [i \in 1..Len(st.mb.Devices) |->
                                   DeviceAt(st.heap, st.mb.Devices[i])],
                  EventFileInfo |-> [n \in 1..Len(st.mb.EventFileInfo) |->
                                   EventFileAt(st.heap, st.mb.EventFileInfo[n])]]]

MergeWrite ==
    /\ mrg.pc = "merge"
    /\ mrg.k > Len(mrg.paths)
    /\ LET w == MetadataBuilderWrite(mrg.mb, mrg.heap)
       IN  mrg' = [mrg EXCEPT !.pc = "done", !.mb = w.st.mb, !.heap = w.st.heap,
                              !.out = w.out]
    /\ UNCHANGED mergeFrame

MergeLists == UNION { [1..n -> MergePaths] : n \in 1..MaxMergeList }

MergeNext ==
    \/ \E paths \in MergeLists : MergeCall(paths)
    \/ MergeMetadata
    \/ MergeWrite

\* ---------------------------------------------------------------------------
\* Mutable (device): the pixel state of a device and its dirty flags.
\*
\* mtb.strips is m.strips, one record per strip with its modified flag and
\* its pixel buffer (layout and pixel values); a pixel is 0 (the zero value)
\* or 1. mtb.ret is what the last call returned, mtb.op that call. Mutable
\* is not safe for concurrent use, so every method is one step.

MaxMutableOps == 5

PixelValues == {0, 1}

NilPacket == [nil |-> TRUE, StripStates |-> <<>>]

MutableInit ==
    mtb = [strips |-> <<>>, pixelsPerStrip |-> 0, op |-> "none",
           ret |-> NilPacket, n |-> 0]

MutableQuiet == MutableInit

\* The discovery headers Initialize is called with.
MutableHeaders ==
    { [PixelPusher |-> FALSE, StripsAttached |-> 0, PixelsPerStrip |-> 0,
       StripFlags |-> <<>>],
      [PixelPusher |-> TRUE, StripsAttached |-> 1, PixelsPerStrip |-> 1,
       StripFlags |-> <<"RGB">>],
      [PixelPusher |-> TRUE, StripsAttached |-> 2, PixelsPerStrip |-> 2,
       StripFlags |-> <<"RGB", "RGBOW">>],
      [PixelPusher |-> TRUE, StripsAttached |-> 2, PixelsPerStrip |-> 1,
       StripFlags |-> <<"RGB", "RGB">>] }

\* A strip state as make() leaves it: no StripState yet, not modified.
NewStrip == [set |-> FALSE, modified |-> FALSE, Layout |-> "RGB", Pixels |-> <<>>]

\* Mutable.Initialize
Initialize(m, dh) ==
    IF ~dh.PixelPusher THEN [m EXCEPT !.strips = <<>>]
    ELSE LET sized == IF Len(m.strips) # dh.StripsAttached
                      THEN [i \in 1..dh.StripsAttached |->
                               IF i <= Len(m.strips) THEN m.strips[i] ELSE NewStrip]
                      ELSE m.strips
             init(i) ==
                 LET mst == sized[i]
                     resetPixels == \/ Len(mst.Pixels) # dh.PixelsPerStrip
                                    \/ mst.Layout # dh.StripFlags[i]
                 IN  [set |-> TRUE,
                      modified |-> mst.modified \/ ~mst.set \/ resetPixels,
                      Layout |-> dh.StripFlags[i],
                      Pixels |-> IF resetPixels
                                 THEN [p \in 1..dh.PixelsPerStrip |-> 0]
                                 ELSE mst.Pixels]
         IN  [m EXCEPT !.strips = [i \in 1..Len(sized) |-> init(i)],
                       !.pixelsPerStrip = dh.PixelsPerStrip]

\* Mutable.SetPixel; strip and pixel are the Go (0-based) indexes.
SetPixel(m, strip, pixel, v) ==
    IF strip < 0 \/ strip >= Len(m.strips) THEN m
    ELSE IF pixel < 0 \/ pixel >= m.pixelsPerStrip THEN m
    ELSE IF m.strips[strip + 1].Pixels[pixel + 1] # v
    THEN [m EXCEPT !.strips[strip + 1].Pixels[pixel + 1] = v,
                   !.strips[strip + 1].modified = TRUE]
    ELSE m

\* Mutable.SetPixels: the values of pixels are copied within bounds.
SetPixels(m, strip, pixels) ==
    IF strip < 0 \/ strip >= Len(m.strips) THEN m
    ELSE LET old == m.strips[strip + 1].Pixels
         IN  [m EXCEPT !.strips[strip + 1].Pixels =
                           [p \in 1..Len(old) |->
                               IF p <= Len(pixels) THEN pixels[p] ELSE old[p]],
                       !.strips[strip + 1].modified = TRUE]

\* The loop of SyncPacket from strip i (TLA+ index) on; sts is the list of
\* strip states collected so far.
RECURSIVE syncStrips(_, _, _)
syncStrips(m, sts, i) ==
    IF i > Len(m.strips) THEN [m |-> m, states |-> sts]
    ELSE IF ~m.strips[i].modified THEN syncStrips(m, sts, i + 1)
    ELSE syncStrips([m EXCEPT !.strips[i].modified = FALSE],
                    Append(sts, [StripNumber |-> i - 1,
                                Layout |-> m.strips[i].Layout,
                                Pixels |-> m.strips[i].Pixels]),
                    i + 1)

SyncPacket_KeepModified(m) ==
    LET st == syncStrips(m, <<>>, 1)
    IN  [m EXCEPT !.ret = IF st.states = <<>> THEN NilPacket
                          ELSE [nil |-> FALSE, StripStates |-> st.states]]

\* Mutable.SyncPacket
SyncPacket(m) ==
    LET st == syncStrips(m, <<>>, 1)
    IN  [st.m EXCEPT !.ret = IF st.states = <<>> THEN NilPacket
                             ELSE [nil |-> FALSE, StripStates |-> st.states]]

MutableCalled(m, op) == [m EXCEPT !.op = op, !.n = mtb.n + 1]

DoInitialize(dh) ==
    /\ mtb.n < MaxMutableOps
    /\ mtb' = MutableCalled([Initialize(mtb, dh) EXCEPT !.ret = NilPacket],
                            "Initialize")
    /\ UNCHANGED mutableFrame

DoSetPixel(strip, pixel, v) ==
    /\ mtb.n < MaxMutableOps
    /\ mtb' = MutableCalled([SetPixel(mtb, strip, pixel, v) EXCEPT !.ret = NilPacket],
                            "SetPixel")
    /\ UNCHANGED mutableFrame

DoSetPixels(strip, pixels) ==
    /\ mtb.n < MaxMutableOps
    /\ mtb' = MutableCalled([SetPixels(mtb, strip, pixels) EXCEPT !.ret = NilPacket],
                            "SetPixels")
    /\ UNCHANGED mutableFrame

DoSyncPacket ==
    /\ mtb.n < MaxMutableOps
    /\ mtb' = MutableCalled(SyncPacket(mtb), "SyncPacket")
    /\ UNCHANGED mutableFrame

\* Strip and pixel arguments, one of each out of bounds on either side.
MutableIndexes == {0 - 1, 0, 1, 2}

MutableBuffers == UNION { [1..k -> PixelValues] : k \in 1..2 }

MutableNext ==
    \/ \E dh \in MutableHeaders : DoInitialize(dh)
    \/ \E strip, pixel \in MutableIndexes, v \in PixelValues :
           DoSetPixel(strip, pixel, v)
    \/ \E strip \in MutableIndexes, pixels \in MutableBuffers :
           DoSetPixels(strip, pixels)
    \/ DoSyncPacket

\* ---------------------------------------------------------------------------
\* Listener (discovery): Accept, acceptOnce and the read goroutine that
\* startInternal starts.
\*
\* lsn.pc is the place of the one caller of Accept (the Listener is not safe
\* for concurrent use): "idle", "clear" (the first select of acceptOnce),
\* "request" (the send on requestC) or "wait" (the second select).
\* lsn.cancelled is the state of the caller's Context, lsn.ret what the last
\* Accept returned. lsn.gpc is the place of the goroutine: "range" (it
\* receives from requestC), "read" (in ReadFromUDP), "result" (it offers
\* lsn.lr to resultC) or "exit". lsn.resultC is the channel of capacity 1,
\* lsn.net the datagram the socket holds, lsn.conn whether the connection is
\* open.

MaxAccepts == 3

MaxPackets == 2

ListenerInit ==
    lsn = [pc |-> "idle", cancelled |-> FALSE, ret |-> "none",
           gpc |-> "range", lr |-> "none", resultC |-> <<>>,
           net |-> "none", conn |-> TRUE, calls |-> 0, packets |-> 0]

ListenerQuiet == ListenerInit

AcceptReturn(l, r) == [l EXCEPT !.pc = "idle", !.ret = r]

\* Accept is called with a Context that is cancelled already or is not.
AcceptCall(cancelled) ==
    /\ lsn.pc = "idle"
    /\ lsn.calls < MaxAccepts
    /\ lsn' = IF ~lsn.conn
              THEN [AcceptReturn(lsn, "notActive") EXCEPT
                        !.calls = lsn.calls + 1, !.cancelled = cancelled]
              ELSE [lsn EXCEPT !.pc = "clear", !.ret = "none",
                               !.calls = lsn.calls + 1, !.cancelled = cancelled]
    /\ UNCHANGED listenerFrame

\* The caller's Context is cancelled while Accept runs.
ContextCancel ==
    /\ lsn.pc # "idle"
    /\ ~lsn.cancelled
    /\ lsn' = [lsn EXCEPT !.cancelled = TRUE]
    /\ UNCHANGED listenerFrame

\* acceptOnce, "Clear any previous result in the queue": a select takes any
\* case that is ready, the default when none is.
AcceptClear ==
    /\ lsn.pc = "clear"
    /\ \/ /\ lsn.resultC # <<>>
          /\ lsn' = [lsn EXCEPT !.resultC = <<>>, !.pc = "request"]
       \/ /\ lsn.cancelled
          /\ lsn' = AcceptReturn(lsn, "ctxErr")
       \/ /\ lsn.resultC = <<>> /\ ~lsn.cancelled
          /\ lsn' = [lsn EXCEPT !.pc = "request"]
    /\ UNCHANGED listenerFrame

\* acceptOnce, "l.requestC <- struct{}{}": requestC has no buffer, the send
\* completes when the goroutine receives.
AcceptRequest ==
    /\ lsn.pc = "request"
    /\ lsn.gpc = "range"
    /\ lsn' = [lsn EXCEPT !.pc = "wait", !.gpc = "read"]
    /\ UNCHANGED listenerFrame

\* acceptOnce, the select on resultC and c.Done(): a read error is returned,
\* a datagram that does not parse or is filtered makes Accept call acceptOnce
\* again, valid headers are returned.
AcceptWait ==
    /\ lsn.pc = "wait"
    /\ \/ /\ lsn.resultC # <<>>
          /\ lsn' = LET taken == [lsn EXCEPT !.resultC = <<>>]
                    IN  CASE lsn.resultC[1] = "err" -> AcceptReturn(taken, "readErr")
                          [] lsn.resultC[1] = "invalid" -> [taken EXCEPT !.pc = "clear"]
                          [] OTHER -> AcceptReturn(taken, "headers")
       \/ /\ lsn.cancelled
          /\ lsn' = AcceptReturn(lsn, "ctxErr")
    /\ UNCHANGED listenerFrame

\* The goroutine, "l.conn.ReadFromUDP(l.data)": it returns when the socket
\* holds a datagram, or with an error when the connection was closed.
GoroutineRead ==
    /\ lsn.gpc = "read"
    /\ lsn.net # "none" \/ ~lsn.conn
    /\ lsn' = [lsn EXCEPT !.gpc = "result",
                          !.lr = IF lsn.net # "none" THEN lsn.net ELSE "err",
                          !.net = "none"]
    /\ UNCHANGED listenerFrame

\* The goroutine, "case l.resultC <- lr: default:".
GoroutineResult ==
    /\ lsn.gpc = "result"
    /\ lsn' = [lsn EXCEPT !.gpc = "range", !.lr = "none",
                          !.resultC = IF lsn.resultC = <<>> THEN <<lsn.lr>>
                                      ELSE lsn.resultC]
    /\ UNCHANGED listenerFrame

\* The goroutine, "for range l.requestC" once Close closed requestC.
GoroutineExit ==
    /\ lsn.gpc = "range"
    /\ ~lsn.conn
    /\ lsn' = [lsn EXCEPT !.gpc = "exit"]
    /\ UNCHANGED listenerFrame

\* A discovery datagram reaches the socket.
PacketArrives(kind) ==
    /\ lsn.conn
    /\ lsn.net = "none"
    /\ lsn.packets < MaxPackets
    /\ lsn' = [lsn EXCEPT !.net = kind, !.packets = lsn.packets + 1]
    /\ UNCHANGED listenerFrame

\* Listener.Close, called between two Accept calls.
ListenerClose ==
    /\ lsn.pc = "idle"
    /\ lsn.conn
    /\ lsn' = [lsn EXCEPT !.conn = FALSE]
    /\ UNCHANGED listenerFrame

ListenerNext ==
    \/ \E cancelled \in BOOLEAN : AcceptCall(cancelled)
    \/ ContextCancel
    \/ AcceptClear
    \/ AcceptRequest
    \/ AcceptWait
    \/ GoroutineRead
    \/ GoroutineResult
    \/ GoroutineExit
    \/ \E kind \in {"valid", "invalid"} : PacketArrives(kind)
    \/ ListenerClose

\* The caller and the goroutine are scheduled whenever they can take a step;
\* nothing makes a datagram arrive or a Context be cancelled.
ListenerFairness ==
    /\ WF_lsn(AcceptClear)
    /\ WF_lsn(AcceptRequest)
    /\ WF_lsn(AcceptWait)
    /\ WF_lsn(GoroutineRead)
    /\ WF_lsn(GoroutineResult)
    /\ WF_lsn(GoroutineExit)

\* The parts of the model that each have one variable, at rest.
AuxQuiet == PlayRoundQuiet /\ MergeQuiet /\ MutableQuiet /\ ListenerQuiet

\* The other parts of the model at rest.
RestQuiet ==
  /\ PSQuiet /\ DispatcherQuiet /\ RegistryQuiet /\ DeviceRegistryQuiet
  /\ RouterQuiet /\ PlayerQuiet /\ RecorderQuiet

(***************************************************************************)
(* Specifications.                                                         *)
(***************************************************************************)
StreamInit == PSInit /\ DispatcherQuiet /\ RegistryQuiet /\ DeviceRegistryQuiet
  /\ RouterQuiet /\ PlayerQuiet /\ RecorderQuiet /\ AuxQuiet

StreamNext ==
  /\ DoSendCommand \/ DoSendOrEnqueueStripState \/ DoFlush \/ DoSendPacket
  /\ UNCHANGED streamFrame

SpecStream == StreamInit /\ [][StreamNext]_vars

DispatcherInit ==
  RemoteInit /\ PSQuiet /\ RegistryQuiet /\ DeviceRegistryQuiet
  /\ RouterQuiet /\ PlayerQuiet /\ RecorderQuiet /\ AuxQuiet

DispatcherNext ==
  /\ \/ MarkDone
     \/ \E t \in Callers :
          \/ SenderLock(t)
          \/ SenderEnsure(t)
          \/ SenderRetain(t)
          \/ SendPacket(t)
          \/ SendDatagram(t)
          \/ Close(t)
     \/ \E t \in Threads :
          \/ ClearDispatcher(t)
          \/ ShutdownSender(t)
     \/ \E k \in Dispatchers :
          \/ GoSelect(k)
          \/ GoLock(k)
  /\ UNCHANGED dispatcherFrame

SpecDispatcher == DispatcherInit /\ [][DispatcherNext]_vars

\* The Go scheduler runs every runnable goroutine: a thread inside a call,
\* and a dispatcher's goroutine, takes its next step when that step stays
\* possible.  Nothing obliges a caller to begin a call.
DispatcherFairness ==
  /\ \A t \in Callers :
       WF_vars((SenderEnsure(t) \/ SenderRetain(t)) /\ UNCHANGED dispatcherFrame)
  /\ \A t \in Threads :
       WF_vars((ClearDispatcher(t) \/ ShutdownSender(t)) /\ UNCHANGED dispatcherFrame)
  /\ \A k \in Dispatchers :
       WF_vars((GoSelect(k) \/ GoLock(k)) /\ UNCHANGED dispatcherFrame)

SpecDispatcherFair == SpecDispatcher /\ DispatcherFairness

DiscoveryInit ==
  RegistryInit /\ PSQuiet /\ DispatcherQuiet /\ DeviceRegistryQuiet
  /\ RouterQuiet /\ PlayerQuiet /\ RecorderQuiet /\ AuxQuiet

DiscoveryNext ==
  /\ \/ Tick
     \/ \E c \in Clients :
          \/ ObserveBegin(c)
          \/ ObserveLocked(c)
          \/ ObserveSend(c)
          \/ Unregister(c)
          \/ Shutdown(c)
     \/ \E e \in Entries :
          \/ LifecycleSelect(e)
          \/ LifecycleMarkDone(e)
          \/ LifecycleUnregister(e)
  /\ UNCHANGED discoveryFrame

SpecRegistry == DiscoveryInit /\ [][DiscoveryNext]_vars

\* The Go scheduler runs every runnable goroutine: a lifecycle task, and a
\* thread inside Observe, takes its next step when that step stays possible.
\* Nothing obliges a client to call, and the clock may stand still.
RegistryFairness ==
  /\ \A e \in Entries :
       WF_vars((LifecycleSelect(e) \/ LifecycleMarkDone(e)
                  \/ LifecycleUnregister(e))
               /\ UNCHANGED discoveryFrame)
  /\ \A c \in Clients :
       WF_vars((ObserveLocked(c) \/ ObserveSend(c))
               /\ UNCHANGED discoveryFrame)

SpecRegistryFair == SpecRegistry /\ RegistryFairness

\* The Registry with Expiration 2 at time 2, device 1 having been observed at
\* time 0 and not since: the lifecycle task of its entry has received the
\* deadline and armed its timer, which runs out now. The Observe calls of a
\* behaviour are counted from there.
ObservedOnce ==
  /\ now = 2
  /\ reg = [Expiration |-> 2, mu |-> 0,
            devices |-> [i \in DeviceIDs |-> IF i = 1 THEN 1 ELSE 0]]
  /\ nEntries = 1
  /\ entry = [e \in Entries |->
                IF e = 1
                THEN [NoEntry EXCEPT !.deviceID = 1, !.pc = "select",
                                     !.timer = 2, !.observed = 1,
                                     !.expires = 2, !.promised = 2]
                ELSE NoEntry]
  /\ client = [c \in Clients |-> IdleClient]

ObservedInit ==
  /\ ObservedOnce
  /\ nObserves = 0
  /\ PSQuiet /\ DispatcherQuiet /\ DeviceRegistryQuiet
  /\ RouterQuiet /\ PlayerQuiet /\ RecorderQuiet /\ AuxQuiet

SpecRegistryObserved == ObservedInit /\ [][DiscoveryNext]_vars

SpecRegistryObservedFair == SpecRegistryObserved /\ RegistryFairness

DeviceRegistrySpecInit ==
  DeviceRegistryInit /\ PSQuiet /\ DispatcherQuiet /\ RegistryQuiet
  /\ RouterQuiet /\ PlayerQuiet /\ RecorderQuiet /\ AuxQuiet

DeviceRegistryNext ==
  /\ \/ \E a \in Adders :
          \/ AddCheck(a)
          \/ AddLocked(a)
     \/ \E e \in RegEntries : RegistryLifecycle(e)
     \/ \E d \in RegDevices :
          \/ DeviceDone(d)
          \/ SetOrdinal(d)
  /\ UNCHANGED deviceRegistryFrame

SpecDeviceRegistry == DeviceRegistrySpecInit /\ [][DeviceRegistryNext]_vars

\* The Go scheduler runs every runnable goroutine: an entry's lifecycle
\* task whose device is done takes its step.  Nothing is assumed of the
\* threads that call Add.
DeviceRegistryFairness ==
  \A e \in RegEntries : WF_drVars(RegistryLifecycle(e))

SpecDeviceRegistryFair == SpecDeviceRegistry /\ DeviceRegistryFairness

\* The Router with its Registry, to which devices 1 and 2 have been added
\* (as in the Router's tests): the devices become done and are unregistered
\* while packets are routed.
RouterSpecInit ==
  /\ dev \in [RegDevices -> [ordinal : Ordinals, done : {FALSE}]]
  /\ dev[1].ordinal = Ordinal(0, 0)
  /\ dev[2].ordinal \in {Ordinal(0, 0), Ordinal(0, 1)}
  /\ dev[3].ordinal = Ordinal(1, 0)
  /\ LET st0 == [reg |-> [devices |-> [i \in RegIDs |-> 0],
                          groupMap |-> EmptyMap, ordinalMap |-> EmptyMap],
                 entry |-> [e \in RegEntries |-> NoRegEntry]]
         st == addLocked(addLocked(st0, 1), 2)
     IN  /\ dreg = st.reg
         /\ dentry = st.entry
  /\ adder = [a \in Adders |-> IdleAdder]
  /\ nAdds = 2
  /\ RouterInit
  /\ PSQuiet /\ DispatcherQuiet /\ RegistryQuiet /\ PlayerQuiet
  /\ RecorderQuiet /\ AuxQuiet

RouterNext ==
  /\ \/ /\ \/ \E e \in RegEntries : RegistryLifecycle(e)
             \/ \E d \in RoutedDevices : DeviceDone(d)
          /\ UNCHANGED rtVars
     \/ /\ \/ \E l \in RouteListeners :
                  \/ AddListener(l)
                  \/ RemoveListener(l)
             \/ \E c \in Routers :
                  \/ RouteOrdinal(c)
                  \/ RouteGet(c)
                  \/ RouteFast(c)
                  \/ RouteSlow(c)
                  \/ \E h \in RouteListeners : RouteDispatch(c, h)
                  \/ RouteSend(c)
             \/ RouterShutdown
             \/ \E k \in Conns : ConnectionLifecycle(k)
          /\ UNCHANGED drVars
  /\ UNCHANGED routerFrame

SpecRouter == RouterSpecInit /\ [][RouterNext]_vars

\* The Go scheduler runs every runnable goroutine: a connection's lifecycle
\* task whose device is done takes its step.
RouterFairness ==
  \A k \in Conns : WF_rtVars(ConnectionLifecycle(k))

SpecRouterFair == SpecRouter /\ RouterFairness

\* The Player plays the stream file while time passes and Pause, Resume,
\* Status and Stop are called.
PlayerSpecInit ==
  /\ PlayerInit
  /\ PSQuiet /\ DispatcherQuiet /\ RegistryQuiet /\ DeviceRegistryQuiet
  /\ RouterQuiet /\ RecorderQuiet /\ AuxQuiet

PlayerNext ==
  /\ \/ PlayerTick
     \/ Play
     \/ PlayStart
     \/ CallPause
     \/ CallResume
     \/ CallStatus
     \/ StatusNotPlaying
     \/ SendCommandFinished
     \/ StatusReturn
     \/ ProcessCommand
     \/ StartTimer
     \/ EventReady
     \/ NextRound
     \/ RoundCancelled
     \/ WaitCancelled
     \/ PlaybackClose
     \/ PlaybackRelease
     \/ PlaybackDrain
     \/ PlaybackExit
     \/ PlayerStop
     \/ StopReturn
  /\ UNCHANGED playerFrame

SpecPlayer == PlayerSpecInit /\ [][PlayerNext]_vars

\* The Recorder is started and stopped and is handed packets, in any
\* order.
RecorderSpecInit ==
  /\ RecorderInit
  /\ PSQuiet /\ DispatcherQuiet /\ RegistryQuiet /\ DeviceRegistryQuiet
  /\ RouterQuiet /\ PlayerQuiet /\ AuxQuiet

RecorderNext ==
  /\ \/ RecorderStart
     \/ RecordPacket
     \/ RecorderStop
  /\ UNCHANGED recorderFrame

SpecRecorder == RecorderSpecInit /\ [][RecorderNext]_vars

\* One playback: rounds over the events of the stream file.
PlayRoundSpecInit == PlayRoundInit /\ RestQuiet
  /\ MergeQuiet /\ MutableQuiet /\ ListenerQuiet

PlayRoundNext ==
  \/ RoundReadEvent
  \/ RoundWait
  \/ RoundSend
  \/ RoundReturned

SpecPlayRound == PlayRoundSpecInit /\ [][PlayRoundNext]_vars

MergeSpecInit ==
    MergeInit /\ RestQuiet /\ PlayRoundQuiet /\ MutableQuiet /\ ListenerQuiet

SpecMerge == MergeSpecInit /\ [][MergeNext]_vars

MutableSpecInit ==
    MutableInit /\ RestQuiet /\ PlayRoundQuiet /\ MergeQuiet /\ ListenerQuiet

SpecMutable == MutableSpecInit /\ [][MutableNext]_vars

ListenerSpecInit ==
    ListenerInit /\ RestQuiet /\ PlayRoundQuiet /\ MergeQuiet /\ MutableQuiet

SpecListener == ListenerSpecInit /\ [][ListenerNext]_vars

SpecListenerFair == SpecListener /\ ListenerFairness

(***************************************************************************)
(* Packet stream claims.                                                   *)
(***************************************************************************)
Attempts == { call.log[i] : i \in 1..Len(call.log) }

Handed == { a \in Attempts : a.handed }

NumAccepted == Cardinality({ i \in 1..Len(call.log) : call.log[i].ok })

\* C1: the k-th datagram the sender accepts (commands and flushes counted
\* together, from 0) begins with the big-endian bytes of the initial NextID
\* plus k (in uint32 arithmetic), and NextID is the initial NextID plus the
\* number of accepted datagrams: +1 per successful send, nothing on a
\* failed one.
C1_SequenceIDs ==
  /\ ps.NextID = AddU32(nextID0, ds.count)
  /\ \A i \in 1..Len(call.log) :
       LET before == Cardinality({ j \in 1..(i - 1) : call.log[j].ok })
           a == call.log[i]
       IN  /\ a.id = AddU32(nextID0, ds.count - NumAccepted + before)
           /\ a.handed => Take(a.data, 4) = BE32(a.id)
  /\ NumAccepted = 0 => \A a \in Attempts : ps.NextID = a.id

C1_Witness ==
  /\ ds.count = 3
  /\ Take(ds.last, 4) = <<0, 0, 0, 0>>
  /\ call.prev = <<"SendOrEnqueueStripState", FALSE>>
  /\ call.op = "SendCommand"

C3_NeverOverMaxDatagramSize ==
  \A a \in Handed : Len(a.data) <= ds.maxDatagramSize

\* C4: when the unpadded size of a command or pixel datagram exceeds the
\* sender's MaxDatagramSize, the call returns an error, the datagram is not
\* passed to the sender and NextID is not incremented.
C4_TooLargeIsRejected ==
  \A i \in 1..Len(call.log) :
    4 + Len(call.log[i].content) > ds.maxDatagramSize =>
      /\ ~call.log[i].handed
      /\ call.err
      /\ i = Len(call.log)
      /\ ps.NextID = call.log[i].id

C4_Witness ==
  /\ call.op = "SendCommand"
  /\ call.arg.ID = CommandGlobalBrightnessSet
  /\ ds.maxDatagramSize = 22
  /\ call.err
  /\ ds.count = 1

C4_WitnessFlush ==
  /\ call.op = "Flush"
  /\ Len(call.log) = 1
  /\ 4 + Len(call.log[1].content) > ds.maxDatagramSize

\* C5: with FixedSize = N > 0, a datagram passed to the sender whose
\* unpadded size is at most N has length N: the ID, the content, then zero
\* bytes only.
C5_PaddedToFixedSize ==
  \A a \in Handed :
    (ps.FixedSize > 0 /\ 4 + Len(a.content) <= ps.FixedSize) =>
      /\ Len(a.data) = ps.FixedSize
      /\ a.data = BE32(a.id) \o a.content
                     \o Zeros(ps.FixedSize - 4 - Len(a.content))

C5_Witness ==
  /\ ps.FixedSize = 24
  /\ call.op = "SendCommand"
  /\ \E a \in Handed : a.ok /\ Len(a.content) = 17

C5_WitnessPixels ==
  /\ ps.FixedSize = 12
  /\ call.op = "SendOrEnqueueStripState"
  /\ \E a \in Handed : a.ok /\ Len(a.content) = 4

\* C6: when PixelsPerStrip > 0, every strip state written into the strip
\* buffer carries exactly PixelsPerStrip pixels.
C6_StripsConformToPixelsPerStrip ==
  ps.PixelsPerStrip > 0 =>
    \A i \in 1..Len(ps.strips) :
      Len(ps.strips[i]) = 1 + 3 * ps.PixelsPerStrip

IsPrefix(p, s) == Len(p) <= Len(s) /\ Take(s, Len(p)) = p

\* The command of the call that returned.
CalledCommand ==
  IF call.op = "SendPacket" THEN call.arg.Command[1] ELSE call.arg

\* A datagram sent from the strip state buffer: the ID, then the strip
\* states written since the buffer was reset, then zero bytes, and no
\* command.
PixelDatagram(a) ==
  /\ \E n \in 0..Len(a.data) :
       a.data = BE32(a.id) \o a.content \o Zeros(n)
  /\ ~IsPrefix(CommandMagic, Drop(a.data, 4))

\* C28 as it is stated: no datagram passed to the sender holds both a
\* command and strip states; a datagram of SendCommand is the ID, the magic
\* and the command of the call and nothing else, and a datagram of
\* SendOrEnqueueStripState or Flush is the ID, strip states and padding,
\* also when strips are buffered while the command is sent.
C28_CommandDatagramIsUnpadded ==
  \A a \in Handed :
    IF a.buf = "commandBuf"
    THEN a.data = BE32(a.id) \o WriteCommand(CalledCommand, <<>>, TRUE)
    ELSE PixelDatagram(a)

\* C28, amended: a datagram of SendCommand is the ID, the magic and the
\* command of the call, and zero bytes up to FixedSize; a datagram of
\* SendOrEnqueueStripState or Flush is the ID, strip states and padding;
\* and a SendCommand leaves the buffered strip states as they are.
C28_NeverMixed ==
  /\ [](\A a \in Handed :
         IF a.buf = "commandBuf"
         THEN LET natural == BE32(a.id)
                               \o WriteCommand(CalledCommand, <<>>, TRUE)
              IN  a.data = natural \o Zeros(ps.FixedSize - Len(natural))
         ELSE PixelDatagram(a))
  /\ [](\A a \in Handed :
         a.buf = "commandBuf" <=>
           \/ call.op = "SendCommand"
           \/ call.op = "SendPacket" /\ call.arg.Command # <<>>
                                     /\ a = call.log[1])
  /\ [][ (ops' = ops + 1 /\ call'.op = "SendCommand") =>
            /\ ps'.strips = ps.strips
            /\ ps'.stripStateBuf = ps.stripStateBuf
            /\ ps'.stripStateCount = ps.stripStateCount ]_vars

C28_Witness ==
  /\ call.op = "SendCommand"
  /\ ps.stripStateCount > 0
  /\ ps.FixedSize = 24
  /\ \E a \in Handed : a.ok /\ Len(a.data) = 24 /\ Len(a.content) = 17

C28_WitnessPixels ==
  /\ call.op = "Flush"
  /\ call.prev = <<"SendCommand", FALSE>>
  /\ \E a \in Handed : a.ok /\ Len(a.content) > 0

\* The strip number and the pixel bytes of a strip state, as they are
\* written into a datagram.
StripBytes(ss) == <<ss.StripNumber % 256>> \o ss.Pixels.buf

\* A datagram of that many content bytes is within the maximum packet size:
\* the link's MaxDatagramSize, or FixedSize when that is set and smaller.
LargeEnough(n) == 4 + n <= calculateMaxPacketSize(ps, ds.maxDatagramSize)

\* The call that returned was a SendOrEnqueueStripState of a strip state
\* with pixels that buffered it as the first strip of an empty buffer.
BufferedFirst ==
  /\ call.op = "SendOrEnqueueStripState"
  /\ Len(call.arg.Pixels.buf) > 0
  /\ ~call.err
  /\ call.log = <<>>
  /\ ps.stripStateCount = 1

\* C29: with MaxStripsPerPacket = M and a maximum packet size that a
\* datagram of M strips is within, M calls of SendOrEnqueueStripState with
\* strip states that have pixels, the first with an empty buffer: each of
\* the first M-1 passes nothing to the sender, and the M-th passes exactly
\* one datagram, holding the ID and the M strips in the order of the calls
\* (and padding up to FixedSize).  M is 1 or 2.
C29_BatchOfMaxStrips ==
  [][ (/\ ops' = ops + 1
       /\ call'.op = "SendOrEnqueueStripState"
       /\ Len(call'.arg.Pixels.buf) > 0) =>
        LET new == StripBytes(call'.arg)
            old == StripBytes(call.arg)
            OneDatagram(content) ==
              /\ Len(call'.log) = 1
              /\ call'.log[1].handed
              /\ LET natural == BE32(ps.NextID) \o content
                 IN  call'.log[1].data
                       = natural \o Zeros(ps.FixedSize - Len(natural))
        IN  /\ (ps.stripStateCount = 0 /\ ps.MaxStripsPerPacket = 2) =>
                 call'.log = <<>>
            /\ (/\ ps.stripStateCount = 0
                /\ ps.MaxStripsPerPacket = 1
                /\ LargeEnough(Len(new))) => OneDatagram(new)
            /\ (/\ BufferedFirst
                /\ ps.MaxStripsPerPacket = 2
                /\ LargeEnough(Len(old) + Len(new))) =>
                 OneDatagram(old \o new) ]_vars

C29_Witness ==
  /\ ps.MaxStripsPerPacket = 2
  /\ call.op = "SendOrEnqueueStripState"
  /\ call.prev = <<"SendOrEnqueueStripState", FALSE>>
  /\ ~call.err
  /\ Len(call.log) = 1
  /\ call.log[1].ok
  /\ call.log[1].content
       = StripBytes(StripInput(7, 2)) \o StripBytes(StripInput(2, 1))
  /\ ps.stripStateCount = 0

C29_WitnessOne ==
  /\ ps.MaxStripsPerPacket = 1
  /\ call.op = "SendOrEnqueueStripState"
  /\ Len(call.log) = 1
  /\ call.log[1].ok
  /\ call.log[1].content = StripBytes(StripInput(7, 2))

\* The strip states with pixels that the call that returned submitted.
Submitted(c) ==
  LET all == IF c.op = "SendOrEnqueueStripState" THEN <<c.arg>>
             ELSE IF c.op = "SendPacket" THEN c.arg.StripStates
             ELSE <<>>
  IN  SelectSeq(all, LAMBDA ss : Len(ss.Pixels.buf) > 0)

RECURSIVE StripBytesOf(_)
StripBytesOf(strips) ==
  IF strips = <<>> THEN <<>>
  ELSE StripBytes(Head(strips)) \o StripBytesOf(Tail(strips))

\* The strip bytes of the pixel datagrams that the sender accepted, in the
\* order of the datagrams.
RECURSIVE PixelsEmitted(_)
PixelsEmitted(log) ==
  IF log = <<>> THEN <<>>
  ELSE (IF Head(log).ok /\ Head(log).buf = "stripStateBuf"
        THEN Head(log).content ELSE <<>>) \o PixelsEmitted(Tail(log))

\* The sender accepted the i-th datagram of the log, and it was a command,
\* or pixel data.
CommandEmitted(log, i) == log[i].ok /\ log[i].buf = "commandBuf"

PixelDataEmitted(log, i) == log[i].ok /\ log[i].buf = "stripStateBuf"

\* C30 as it is stated: a strip state submitted before a command is never
\* emitted after that command's datagram.  Strip states that are buffered
\* when a call begins were submitted before it; they are the first of any
\* pixel datagram emitted from then on.  So no pixel datagram is emitted
\* after the command's datagram in a call that began with strips buffered,
\* nor in the call after one that emitted a command and left strips
\* buffered.
C30_SubmittedBeforeNeverEmittedAfter ==
  [][ (ops' = ops + 1 /\ ps.stripStateCount > 0) =>
        /\ ~ \E i, j \in 1..Len(call'.log) :
               i < j /\ CommandEmitted(call'.log, i)
                     /\ PixelDataEmitted(call'.log, j)
        /\ ~ /\ \E i \in 1..Len(call.log) : CommandEmitted(call.log, i)
             /\ \E j \in 1..Len(call'.log) : PixelDataEmitted(call'.log, j)
    ]_vars

\* C30, amended: datagrams are emitted in the order of the calls that emit
\* them.  A command is emitted by its own call, first, and SendCommand
\* emits nothing else and leaves the buffered strip states buffered.  Strip
\* states are emitted in the order of their submission, by a flush: what
\* has been emitted and what is buffered after a call is what was buffered
\* before it followed by the strips the call submitted (all of them unless
\* it returned an error).  SendPacket flushes: when it returns without an
\* error nothing is buffered.
C30_EmittedInCallOrder ==
  [][ ops' = ops + 1 =>
        LET new == Submitted(call')
            log == call'.log
        IN  /\ \E k \in 0..Len(new) :
                 /\ PixelsEmitted(log) \o Flatten(ps'.strips)
                      = Flatten(ps.strips) \o StripBytesOf(SubSeq(new, 1, k))
                 /\ ~call'.err => k = Len(new)
            /\ \A i \in 1..Len(log) : log[i].buf = "commandBuf" => i = 1
            /\ call'.op = "SendCommand" =>
                 /\ Len(log) = 1
                 /\ ps'.strips = ps.strips
                 /\ ps'.stripStateCount = ps.stripStateCount
            /\ (call'.op = "SendPacket" /\ ~call'.err) =>
                 /\ ps'.stripStateCount = 0
                 /\ ps'.strips = <<>> ]_vars

\* A strip state that a failed SendPacket left buffered is emitted by the
\* SendPacket of a command, after the command's datagram.
C30_Witness ==
  /\ call.op = "SendPacket"
  /\ call.arg.Command # <<>>
  /\ call.prev = <<"SendPacket", TRUE>>
  /\ ~call.err
  /\ Len(call.log) = 2
  /\ CommandEmitted(call.log, 1)
  /\ PixelDataEmitted(call.log, 2)

\* SendOrEnqueueStripState, SendCommand, Flush: the strip follows the
\* command.
C30_WitnessStream ==
  /\ ops = 3
  /\ ds.count = 2
  /\ call.op = "Flush"
  /\ call.prev = <<"SendCommand", FALSE>>
  /\ Len(call.log) = 1
  /\ PixelDataEmitted(call.log, 1)
  /\ Len(call.log[1].content) = 7

(***************************************************************************)
(* Remote device and dispatcher properties.                                *)
(***************************************************************************)
Created == 1..nDisp

OpenSenders(k) == {t \in Callers : held[t] = k}

\* C7: once the device is done, no Sender() call returns a Sender and no
\* SendPacket or SendDatagram on a Sender transmits a datagram.
C7_DoneStopsSenders ==
  /\ ~hist.senderAfterDone
  /\ ~hist.sentAfterDone

\* The two halves of C7, each on its own.
C7_NoSenderAfterDone == ~hist.senderAfterDone

C7_NoSendAfterDone == ~hist.sentAfterDone

\* C8: once the device is done, every dispatcher that was started is
\* eventually shut down.
C8_ShutdownWhenDone ==
  \A k \in Dispatchers : (done /\ k \in Created) ~> pd[k].isShutdown

\* The safety half of C8: a dispatcher shuts down at most once, and only
\* with no references left or with the device done.
C8_ShutdownOnceAndJustified ==
  /\ \A k \in Dispatchers : hist.shutdowns[k] <= 1
  /\ \A k \in Dispatchers : pd[k].isShutdown <=> hist.shutdowns[k] = 1
  /\ ~hist.unjustified

\* A thread inside Sender() holds dispatcherMu and waits for the mutex of the
\* dispatcher, whose holder waits for dispatcherMu inside clearDispatcher.
LockCycle ==
  \E t \in Callers, u \in Threads :
    /\ pc[t] = "retain"
    /\ dispatcherMu = t
    /\ dispatcher # 0
    /\ pd[dispatcher].mu = u
    /\ pc[u] = "clear"

\* C8's liveness half holds in every behaviour without the lock cycle.
C8_ShutdownWhenDoneUnlessLockCycle ==
  \A k \in Dispatchers :
    (done /\ k \in Created) ~> (pd[k].isShutdown \/ LockCycle)

\* C9: the open Senders of the device are all on one dispatcher, and every
\* dispatcher's reference count is the number of open Senders on it.
C9_OneDispatcherCountsSenders ==
  /\ \A t, u \in Callers : held[t] # 0 /\ held[u] # 0 => held[t] = held[u]
  /\ \A k \in Created : pd[k].refs = Cardinality(OpenSenders(k))

\* The reference count half of C9 on its own, and all of C9 while the device
\* is not done.
C9_RefsCountSenders ==
  \A k \in Created : pd[k].refs = Cardinality(OpenSenders(k))

C9_UntilDone == done \/ C9_OneDispatcherCountsSenders

(***************************************************************************)
(* Discovery Registry properties.                                          *)
(***************************************************************************)
InRegistry(e) == e \in Registered(reg.devices)

\* The expiration deadline of the registered entry e has passed, n
\* observations of it having been made.
Overdue(e, n) ==
  /\ reg.Expiration > 0
  /\ InRegistry(e)
  /\ entry[e].observed = n
  /\ now > entry[e].expires

\* C10: a registered device whose expiration deadline has passed is
\* eventually done and not listed by Devices(), unless it is observed again.
C10_ExpiresWhenUnobserved ==
  \A e \in Entries : \A n \in 1..MaxObserves :
    Overdue(e, n) ~> (\/ entry[e].done /\ e \notin Devices
                      \/ entry[e].observed > n)

\* A device observed once was left alone, its timer fired after the
\* deadline, and it is done and not listed.
C10_Witness ==
  \E e \in Entries :
    /\ reg.Expiration > 0
    /\ entry[e].observed = 1
    /\ entry[e].cause = "timer"
    /\ now > entry[e].expires
    /\ entry[e].done
    /\ e \notin Devices

\* The lifecycle task of e closed the device's doneC because the entry
\* expired.
Expired(e) == entry[e].cause \in {"timer", "late"} /\ entry[e].doneAt # NoTimer

\* C11: a device observed before its expiration timer fired is not expired
\* before the deadline of that observation, observation time + Expiration.
C11_ObservedNotExpiredEarly ==
  \A e \in Entries : Expired(e) => entry[e].doneAt >= entry[e].promised

\* C11 for devices that were observed once only.
C11_NotExpiredEarlyObservedOnce ==
  \A e \in Entries :
    Expired(e) /\ entry[e].observed = 1 => entry[e].doneAt >= entry[e].promised

\* The entries made so far; the device of each was returned by the Observe
\* call that made it.
Made == 1..nEntries

\* C12: no two devices that are not done have the same ID.
C12_OneLiveDevicePerID ==
  \A e1, e2 \in Made :
    e1 # e2 /\ entry[e1].deviceID = entry[e2].deviceID
      => entry[e1].done \/ entry[e2].done

\* Entry e was unregistered without its device being marked done, which is
\* what Shutdown does.
ShutDownNotDone(e) == entry[e].closed /\ ~entry[e].done

\* C12 apart from the entries that Shutdown unregistered.
C12_OneLiveDevicePerIDUnlessShutDown ==
  \A e1, e2 \in Made :
    e1 # e2 /\ entry[e1].deviceID = entry[e2].deviceID
      => \/ entry[e1].done \/ entry[e2].done
         \/ ShutDownNotDone(e1) \/ ShutDownNotDone(e2)

\* C26: Registry.Unregister(d) marks done and removes no device but d: the
\* other devices are done after it only if they were before, and are
\* registered after it if they were before; when d is not registered,
\* nothing changes.
C26_UnregisterOnlyThatDevice ==
  [][\A c \in Clients : \A a \in Entries :
       UnregisterDevice(c, a) =>
         /\ \A x \in Entries \ {a} :
              /\ entry'[x].done = entry[x].done
              /\ InRegistry(x) => InRegistry(x)'
         /\ ~InRegistry(a) => reg' = reg /\ entry' = entry]_vars

\* Unregister(d) marks done and removes no device of another ID than d's,
\* and when d is registered it marks d done and removes it, and no other
\* device.
C26_UnregisterOnlyThatID ==
  [][\A c \in Clients : \A a \in Entries :
       UnregisterDevice(c, a) =>
         /\ \A x \in Entries \ {a} :
              entry[x].deviceID # entry[a].deviceID =>
                /\ entry'[x].done = entry[x].done
                /\ InRegistry(x) => InRegistry(x)'
         /\ InRegistry(a) =>
              /\ entry'[a].done /\ ~InRegistry(a)'
              /\ \A x \in Entries \ {a} :
                   /\ entry'[x].done = entry[x].done
                   /\ InRegistry(x) => InRegistry(x)']_vars

\* C27: when Registry.Shutdown returns, every device that was registered
\* is done and its lifecycle task has terminated.
C27_ShutdownTerminatesAll ==
  [][\A c \in Clients :
       Shutdown(c) =>
         \A e \in Registered(reg.devices) :
           entry'[e].done /\ entry'[e].pc = "exit"]_vars

\* Every entry that Shutdown finds registered is unregistered and its
\* updateExpirationC closed when Shutdown returns, and an entry whose
\* updateExpirationC is closed is eventually done with its lifecycle task
\* terminated.
C27_ShutdownTerminatesAllLater ==
  /\ [][\A c \in Clients :
         Shutdown(c) =>
           /\ Registered(reg.devices)' = {}
           /\ \A e \in Registered(reg.devices) : entry'[e].closed]_vars
  /\ \A e \in Entries :
       entry[e].closed ~> (entry[e].done /\ entry[e].pc = "exit")

(***************************************************************************)
(* Device Registry properties.                                             *)
(***************************************************************************)
\* The entries that are in the ID map.
InIDMap == {e \in RegEntries : \E i \in RegIDs : dreg.devices[i] = e}

\* The devices that are registered with ordinal o: those of the entries of
\* the ID map whose registered ordinal is o.
RegisteredWith(o) ==
  {dentry[e].device : e \in {x \in InIDMap : dentry[x].registeredOrdinal = o}}

\* C13: GetUniqueOrdinal(o) returns d exactly when d is not done and is the
\* only device registered with ordinal o, and nil otherwise.
C13_GetUniqueOrdinal ==
  \A o \in Ordinals :
    /\ GetUniqueOrdinal(o) \in RegDevices \cup {0}
    /\ \A d \in RegDevices :
         GetUniqueOrdinal(o) = d <=> ~dev[d].done /\ RegisteredWith(o) = {d}

\* Two devices are registered with different ordinals, and GetUniqueOrdinal
\* returns each of them for its ordinal.
C13_Witness ==
  \E o1, o2 \in Ordinals :
    /\ o1 # o2
    /\ GetUniqueOrdinal(o1) # 0
    /\ GetUniqueOrdinal(o2) # 0
    /\ RegisteredWith(o1) = {GetUniqueOrdinal(o1)}
    /\ RegisteredWith(o2) = {GetUniqueOrdinal(o2)}

\* GetUniqueOrdinal returns nil for an ordinal that two devices which are
\* not done share.
C13_WitnessShared ==
  \E o \in Ordinals :
    /\ Cardinality(RegisteredWith(o)) = 2
    /\ \A d \in RegisteredWith(o) : ~dev[d].done
    /\ GetUniqueOrdinal(o) = 0

\* GetUniqueOrdinal returns nil for an ordinal whose only device is done.
C13_WitnessDone ==
  \E o \in Ordinals, d \in RegDevices :
    /\ RegisteredWith(o) = {d}
    /\ dev[d].done
    /\ GetUniqueOrdinal(o) = 0

\* d1 and d2 are the devices registered with ordinal o.
Share(o, d1, d2) == d1 # d2 /\ RegisteredWith(o) = {d1, d2}

\* Of the two devices d1 and d2 that share ordinal o, d1 is done and d2 is
\* not.
OneOfTwoDone(o, d1, d2) == Share(o, d1, d2) /\ dev[d1].done /\ ~dev[d2].done

\* GetUniqueOrdinal(o) returns d2, or d2 is done or no longer registered
\* with o, or a device other than d1 and d2 is registered with o.
SurvivorReturned(o, d1, d2) ==
  \/ GetUniqueOrdinal(o) = d2
  \/ dev[d2].done
  \/ d2 \notin RegisteredWith(o)
  \/ ~(RegisteredWith(o) \subseteq {d1, d2})

\* Some ordinal is shared by exactly two registered devices of which one is
\* done and the other is not: OneOfTwoDone(o, d1, d2) for some o, d1, d2.
SomeOneOfTwoDone ==
  \E o \in Ordinals :
    LET r == RegisteredWith(o)
    IN  /\ Cardinality(r) = 2
        /\ \E d \in r : dev[d].done
        /\ \E d \in r : ~dev[d].done

KeysOf(m, e) == {k \in DOMAIN m : e \in m[k]}

\* C31: when Add(d) takes the write lock for a device d that is registered
\* (the ID map holds an entry of d for d's ID) and whose ordinal o2 is not
\* the ordinal the entry is registered with, then afterwards the ID map
\* holds an entry of d for that ID, the same entry unless d was done, and
\* that entry is in the ordinal set of o2 and the group set of o2's group
\* and in no other; the entry from before is in no set but these.
C31_ReAddMovesToNewOrdinal ==
  [][ \A a \in Adders :
        LET d == adder[a].device
            id == IDOf[d]
            e == dreg.devices[id]
            o2 == dev[d].ordinal
            e2 == dreg'.devices[id]
        IN  (/\ AddLocked(a)
             /\ e # 0
             /\ dentry[e].device = d
             /\ dentry[e].registeredOrdinal # o2) =>
              /\ e2 # 0
              /\ dentry'[e2].device = d
              /\ dentry'[e2].deviceID = id
              /\ ~dev[d].done => e2 = e
              /\ KeysOf(dreg'.ordinalMap, e2) = {o2}
              /\ KeysOf(dreg'.groupMap, e2) = {o2.Group}
              /\ dentry'[e2].registeredOrdinal = o2
              /\ dentry'[e2].registeredGroup = o2.Group
              /\ e2 # e => /\ KeysOf(dreg'.ordinalMap, e) = {}
                           /\ KeysOf(dreg'.groupMap, e) = {}
              /\ \A i \in RegIDs \ {id} :
                   \/ dreg'.devices[i] = dreg.devices[i]
                   \/ /\ dreg.devices[i] # 0
                      /\ dev[dentry[dreg.devices[i]].device].done ]_vars

\* Add(d) is about to take the write lock for a registered device that is
\* not done and whose ordinal and group have changed since it was
\* registered, while another device is registered in the old group.
C31_Witness ==
  \E a \in Adders :
    LET d == adder[a].device
        e == dreg.devices[IDOf[d]]
    IN  /\ adder[a].pc = "add"
        /\ e # 0
        /\ dentry[e].device = d
        /\ ~dev[d].done
        /\ dentry[e].registeredOrdinal # dev[d].ordinal
        /\ dentry[e].registeredGroup # dev[d].ordinal.Group
        /\ KeysOf(dreg.ordinalMap, e) = {dentry[e].registeredOrdinal}
        /\ Cardinality(MapGet(dreg.groupMap, dentry[e].registeredGroup)) = 2

\* The devices of a sequence.
Range(seq) == {seq[i] : i \in 1..Len(seq)}

Groups == {o.Group : o \in Ordinals}

\* C32: Get, GetUniqueOrdinal, DevicesForGroup and AllGroups return no
\* device that is done in the state in which they run, whether or not the
\* device's entry is still in the maps.  A done signal that has fired
\* stays fired, so a device that was done when the call started is done
\* when the call tests it.
C32_ReadsOmitDoneDevices ==
  /\ [](\A id \in RegIDs : Get(id) # 0 => ~dev[Get(id)].done)
  /\ [](\A o \in Ordinals :
         GetUniqueOrdinal(o) # 0 => ~dev[GetUniqueOrdinal(o)].done)
  /\ [](\A g \in Groups : \A d \in Range(DevicesForGroup(g)) : ~dev[d].done)
  /\ [](\A g \in DOMAIN AllGroups :
         \A d \in Range(AllGroups[g]) : ~dev[d].done)
  /\ [][\A d \in RegDevices : dev[d].done => dev'[d].done]_vars

\* A device that is done is still in the maps, alone with its ordinal and
\* together with a device that is not done in its group: Get and
\* GetUniqueOrdinal return nil for it, DevicesForGroup and AllGroups return
\* the other device only.
C32_Witness ==
  \E e1, e2 \in InIDMap :
    LET d1 == dentry[e1].device
        d2 == dentry[e2].device
        g == dentry[e1].registeredGroup
    IN  /\ dev[d1].done
        /\ ~dev[d2].done
        /\ dentry[e2].registeredGroup = g
        /\ MapGet(dreg.groupMap, g) = {e1, e2}
        /\ MapGet(dreg.ordinalMap, dentry[e1].registeredOrdinal) = {e1}
        /\ Get(IDOf[d1]) = 0
        /\ GetUniqueOrdinal(dentry[e1].registeredOrdinal) = 0
        /\ DevicesForGroup(g) = <<d2>>
        /\ AllGroups[g] = <<d2>>

(***************************************************************************)
(* Router claims.                                                          *)
(***************************************************************************)
\* The devices that are not done and alone registered with ordinal o.
UniquelyRegistered(o) ==
  {d \in RegDevices : ~dev[d].done /\ RegisteredWith(o) = {d}}

\* The devices that are not done and registered under id.
RegisteredUnder(id) ==
  {dentry[e].device :
     e \in {x \in InIDMap : /\ dentry[x].deviceID = id
                            /\ ~dev[dentry[x].device].done}}

\* Route is past its lookups and has a target.
HasTarget(r) == r.pc \in {"conn", "slow", "dispatch"}

\* C15: Route(ordinal, id, pkt) takes the device that is uniquely registered
\* with ordinal when ordinal is valid and there is one, whatever id is;
\* otherwise the device registered under id; it returns ErrNoRoute exactly
\* when there is neither, and then no listener was notified, nothing was
\* sent and no connection was made.  The connection it goes on with, the
\* device its listeners are given and the device it sends to are that
\* target's.
C15_RouteTarget ==
  [][\A c \in Routers :
       /\ route[c].pc = "idle" /\ route'[c].pc # "idle" =>
            LET o == route'[c].ordinal
                unique == IF IsValid(o) THEN UniquelyRegistered(o) ELSE {}
            IN  IF unique # {}
                THEN route'[c].pc = "conn" /\ route'[c].d \in unique
                ELSE route'[c].pc = "get"
       /\ route[c].pc = "get" /\ route'[c].pc # "get" =>
            LET byID == RegisteredUnder(route[c].id)
            IN  IF byID # {}
                THEN route'[c].pc = "conn" /\ route'[c].d \in byID
                ELSE /\ route'[c] = RouteReturned("ErrNoRoute")
                     /\ \A l \in RouteListeners : route[c].notified[l] = 0
                     /\ UNCHANGED <<connections, rconn>>
       /\ route'[c].result = "ErrNoRoute" /\ route'[c] # route[c] =>
            route[c].pc = "get"
       /\ HasTarget(route[c]) /\ HasTarget(route'[c]) =>
            route'[c].d = route[c].d
       /\ route'[c].pc = "dispatch" =>
            /\ rconn'[route'[c].rc].device = route'[c].d
            /\ route'[c].passed \subseteq {<<route'[c].d, route'[c].pkt>>}
       /\ route'[c].result \in {"nil", "SendError"} /\ route'[c] # route[c] =>
            /\ route[c].pc = "dispatch"
            /\ rconn[route[c].rc].device = route[c].d]_vars

\* Route found the device uniquely registered with its ordinal while its id
\* names another registered device.
C15_Witness ==
  \E c \in Routers :
    /\ route[c].pc = "conn"
    /\ IsValid(route[c].ordinal)
    /\ route[c].d \in UniquelyRegistered(route[c].ordinal)
    /\ RegisteredUnder(route[c].id) # {}
    /\ route[c].d \notin RegisteredUnder(route[c].id)

\* Route returned ErrNoRoute.
C15_WitnessNoRoute == \E c \in Routers : route[c].result = "ErrNoRoute"

\* Route found no device uniquely registered with its valid ordinal and
\* went on with the device registered under its id.
C15_WitnessByID ==
  \E c \in Routers :
    /\ route[c].pc = "conn"
    /\ IsValid(route[c].ordinal)
    /\ UniquelyRegistered(route[c].ordinal) = {}
    /\ route[c].d \in RegisteredUnder(route[c].id)

\* Route returns having had a target.
ReturnsWithTarget(c) ==
  HasTarget(route[c]) /\ route'[c].pc = "idle"

\* The listeners that are registered while Route dispatches: those that
\* stay registered during the Range, or those registered when Route returns
\* without a Range.
RegisteredListeners(c) ==
  IF route[c].pc = "dispatch" THEN route[c].all ELSE listeners

\* C16: when a Route call that found a target returns, each registered
\* listener has been invoked exactly once, with the target and the packet,
\* and that before the send was attempted, whether the send succeeded or
\* failed.
C16_ListenersNotified ==
  [][\A c \in Routers :
       /\ \A l \in RouteListeners : route'[c].notified[l] <= 1
       /\ route'[c].passed \subseteq {<<route'[c].d, route'[c].pkt>>}
       /\ ReturnsWithTarget(c) =>
            \A l \in RegisteredListeners(c) : route[c].notified[l] = 1]_vars

\* When Route attempts the send, each listener that was registered during
\* the Range has been invoked exactly once with the target and the packet,
\* whether the send succeeds or fails.
C16_NotifiedBeforeSend ==
  [][\A c \in Routers :
       /\ \A l \in RouteListeners : route'[c].notified[l] <= 1
       /\ route'[c].passed \subseteq {<<route'[c].d, route'[c].pkt>>}
       /\ route[c].pc = "dispatch" /\ route'[c].pc = "idle" =>
            /\ route'[c].result \in {"nil", "SendError"}
            /\ \A l \in route[c].all : route[c].notified[l] = 1]_vars

\* Both listeners have been invoked and the send is about to be attempted.
C16_Witness ==
  \E c \in Routers :
    /\ route[c].pc = "dispatch"
    /\ route[c].all = RouteListeners
    /\ \A l \in RouteListeners : route[c].notified[l] = 1

\* The connections made so far, and those whose sender is open.
MadeConns == {k \in Conns : rconn[k].pc # "none"}

OpenConns == {k \in MadeConns : rconn[k].closes = 0}

\* C17: the Router has at most one open Sender per device, and each open
\* Sender is the one of the device's connection in Router.connections; a
\* Sender is closed at most once, and only by a step of Shutdown or when its
\* device is done; Shutdown closes every Sender the Router has, and the
\* Sender of a device that is done is eventually closed.
C17_SenderClosedOnce ==
  /\ [](\A d \in RegDevices :
          /\ Cardinality({k \in OpenConns : rconn[k].device = d}) <= 1
          /\ \A k \in OpenConns : rconn[k].device = d => connections[d] = k)
  /\ [](\A k \in Conns : rconn[k].closes <= 1)
  /\ [][\A k \in Conns :
          rconn'[k].closes > rconn[k].closes =>
            dev[rconn[k].device].done \/ nShutdowns' > nShutdowns]_vars
  /\ [][nShutdowns' > nShutdowns =>
          \A k \in MadeConns : rconn'[k].closes = 1]_vars
  /\ []<>(\A k \in MadeConns :
            dev[rconn[k].device].done => rconn[k].closes = 1)

\* A device's Sender was closed by its lifecycle task after the device was
\* done, and the Router made a second Sender for the device, which is open.
C17_Witness ==
  \E k1, k2 \in Conns :
    /\ k1 # k2
    /\ rconn[k1].pc = "exit"
    /\ rconn[k1].closes = 1
    /\ rconn[k2].pc = "wait"
    /\ rconn[k2].device = rconn[k1].device
    /\ rconn[k2].closes = 0

\* Shutdown closed the Sender of a device that is not done.
C17_WitnessShutdown ==
  \E k \in Conns :
    /\ rconn[k].pc = "wait"
    /\ rconn[k].closes = 1
    /\ ~dev[rconn[k].device].done
    /\ nShutdowns = 1

(***************************************************************************)
(* Player claims.                                                          *)
(***************************************************************************)
Sent(i) == played.sentAt[i] # NoTime

\* C18: an event that is in the past by more than MaxLagAge when the
\* player reaches it is dropped and SendPacket is not called with it, and
\* an event that is late by at most MaxLagAge is sent.  The delta of an
\* event is by how much it is in the past when the player reaches it.
C18_LateEventsDropped ==
  \A i \in Events :
    /\ Sent(i) => played.delta[i] <= MaxLagAge
    /\ i \in played.dropped => played.delta[i] > MaxLagAge /\ ~Sent(i)

\* An event that is late by at most MaxLagAge is sent, and so is every
\* other event: no event is dropped.
C18_NoEventDropped ==
  /\ played.dropped = {}
  /\ \A i \in Events : played.delta[i] # NoTime => Sent(i)

\* The time the player has been paused, from the commands it processed:
\* since is when it was paused, or NoTime.
RECURSIVE TimePaused(_, _, _)
TimePaused(log, since, t) ==
  IF log = <<>> THEN (IF since = NoTime THEN 0 ELSE t - since)
  ELSE IF Head(log)[1] = "pause"
       THEN TimePaused(Tail(log),
                       IF since = NoTime THEN Head(log)[2] ELSE since, t)
       ELSE (IF since = NoTime THEN 0 ELSE Head(log)[2] - since)
              + TimePaused(Tail(log), NoTime, t)

\* The player is paused: the last command it processed is a pause.
IsPaused(log) == log # <<>> /\ log[Len(log)][1] = "pause"

\* SendPacket is called with event i in this step.
Sends(i) == ~Sent(i) /\ played'.sentAt[i] # NoTime

\* C19: SendPacket is not called while the player is paused, and it is
\* called with an event no earlier than the start of the round plus the
\* event's offset plus the time the player has been paused in the round.
C19_PausedTimeIsAdded ==
  [][\A i \in Events :
       Sends(i) =>
         /\ ~IsPaused(played.cmds)
         /\ clock >= pp.startTime + EventOffsets[i]
                       + TimePaused(played.cmds, NoTime, clock)]_vars

\* The player was paused again while it was paused.
PausedTwice(log) ==
  \E k \in 1..(Len(log) - 1) : log[k][1] = "pause" /\ log[k + 1][1] = "pause"

\* The same, for the rounds in which Pause was not called while the player
\* was paused.
C19_PausedTimeIsAddedUnlessPausedTwice ==
  [][\A i \in Events :
       Sends(i) =>
         /\ ~IsPaused(played.cmds)
         /\ ~PausedTwice(played.cmds) =>
              clock >= pp.startTime + EventOffsets[i]
                         + TimePaused(played.cmds, NoTime, clock)]_vars

\* The first round, paused at 0.5s and resumed at 1.5s.
PausedAndResumed ==
  /\ nRounds = 1
  /\ played.cmds = <<<<"pause", 1>>, <<"resume", 3>>>>

\* C20, as the code has it: with events at offsets 0s, 1s and 2s, paused at
\* 0.5s and resumed at 1.5s, the event at offset 1s is sent at 2.0s and the
\* event at offset 2s at 3.0s: neither is sent earlier, and each can be sent
\* from then on.
C20_SentOneSecondLater ==
  PausedAndResumed =>
    /\ Sent(2) => played.sentAt[2] >= 4
    /\ Sent(3) => played.sentAt[3] >= 6
    /\ pp.pc = "wait" /\ pp.idx = 2 /\ clock >= 4 => timerC
    /\ pp.pc = "wait" /\ pp.idx = 3 /\ clock >= 6 => timerC

\* The event at offset 1s was sent at 2.0s and the one at offset 2s at 3.0s.
C20_Witness ==
  /\ PausedAndResumed
  /\ played.sentAt[2] = 4
  /\ played.sentAt[3] = 6

\* C20 as stated: the event at offset 1s is sent at 1.5s and the event at
\* offset 2s at 2.5s.
C20_SentAtResumeTime ==
  PausedAndResumed =>
    /\ Sent(2) => played.sentAt[2] = 3
    /\ Sent(3) => played.sentAt[3] = 5

(***************************************************************************)
(* Player claims: the playback lease, Stop and Status.                     *)
(***************************************************************************)
\* The player is paused: pausedStart of waitForNextCommandOrEvent is set.
Paused == pp.pausedStart # NoTime

\* The playback task takes command c from commandC and processes it in
\* this step.
Processes(c) == pp.pc = "wait" /\ command = c /\ command' = NoCommand

C21_WitnessPaused == pp.pc = "wait" /\ Paused /\ ~lease /\ Sent(1)

\* Player.Stop has returned from a playback: it has closed commandC.
StopReturned == ctl.commandC

\* C22: when Player.Stop returns, the playback task has stopped its timer,
\* closed the reader and released the playback lease: the lease is not
\* held.
C22_LeaseReleasedWhenStopReturns ==
  StopReturned => ~pp.timerRunning /\ ctl.srClosed /\ ~lease

\* When Stop returns the timer is stopped and the reader closed, and from
\* the moment the playback task has released the lease it is not held
\* again.
C22_ClosedWhenStopReturns ==
  /\ StopReturned => ~pp.timerRunning /\ ctl.srClosed
  /\ ctl.finishedC => ~pp.timerRunning /\ ctl.srClosed
  /\ pp.pc \in {"drain", "finished"} => ~lease

\* Player.Status has sent its command, or given it up, and waits in its
\* select, and nothing is on statusC and the Context is not done.
StatusBlocked ==
  /\ ctl.pc = "status"
  /\ command = NoCommand
  /\ ~ctl.statusC
  /\ ~ctl.ctxDone

\* C24: Player.Status always returns: it is never left waiting in its
\* select with nothing to receive.
C24_StatusNotBlocked == ~StatusBlocked

\* A Status that is blocked stays blocked: no step of the playback task or
\* of the Player ends it.
C24_BlockedForEver == [][StatusBlocked => StatusBlocked']_vars

\* Status returns nil when playback is nil, never started or stopped, and
\* while the playback task has not closed finishedC the command of a
\* Status is answered with a status, which is what Status returns.
C24_StatusWhilePlaying ==
  /\ [][ctl.pc = "idle" /\ ~ctl.playback /\ nCmds' # nCmds
          => ctl'.result = "nil"]_vars
  /\ [](ctl.pc = "status" /\ command = NoCommand /\ ~ctl.finishedC
          => ctl.statusC)
  /\ [][ctl.pc = "status" /\ ctl'.pc = "idle"
          => ctl.playback /\ ctl'.result = "status"]_vars

\* C25: a Pause that the playback task processes while it is paused
\* changes nothing: the pause start time stays that of the first Pause,
\* the realtime offset is not changed, and the lease stays as it is.
C25_PauseWhilePausedChangesNothing ==
  [][Processes("pause") /\ Paused =>
       /\ pp'.pausedStart = pp.pausedStart
       /\ pp'.realtimeOffset = pp.realtimeOffset
       /\ lease' = lease]_vars

\* A Pause processed while paused leaves the player paused, the realtime
\* offset as it is and the lease released.
C25_PauseWhilePausedStaysPaused ==
  [][Processes("pause") /\ Paused =>
       /\ pp'.pausedStart # NoTime
       /\ pp'.realtimeOffset = pp.realtimeOffset
       /\ ~lease /\ ~lease']_vars

C23_WitnessKept ==
  /\ rec.sw /\ rec.firstErr = 3 /\ rec.events = 1
  /\ rec.last.op = "RecordPacket" /\ rec.last.err = ErrEncodingNotSupported

(***************************************************************************)
(* playRound claims.                                                       *)
(***************************************************************************)
\* The count of a Go map of counters for a key: 0 when it is not present.
CounterGet(m, k) == IF k \in DOMAIN m THEN m[k] ELSE 0

\* The stream file's device indexes.
DeviceIndexes == {RoundPackets[i] : i \in 1..Len(RoundPackets)} \ {NoPacket}

\* One more event is read, or the stream is at its end.
ContinuesWithNextEvent ==
  /\ rd'.pc = "read"
  /\ rd'.err = "none"
  /\ rd'.idx = rd.idx
  /\ rd'.round = rd.round

\* C33: when the sink returns ErrNoRoute for an event, the no-route counter
\* of the event's device index is incremented by one, the other counters
\* stay, and the round goes on to read the next event; when the sink
\* returns another error the no-route counters stay and the round goes on
\* as well.
C33_NoRouteCountedAndRoundGoesOn ==
  [][ LET device == RoundPackets[rd.idx]
      IN  /\ (SendEvent(TRUE, "ErrNoRoute") /\ device \in KnownDeviceIndexes) =>
               /\ CounterGet(rd'.noRouteDevices, device)
                    = CounterGet(rd.noRouteDevices, device) + 1
               /\ \A k \in DeviceIndexes \ {device} :
                    CounterGet(rd'.noRouteDevices, k)
                      = CounterGet(rd.noRouteDevices, k)
               /\ ContinuesWithNextEvent
          /\ (SendEvent(TRUE, "error") /\ device \in KnownDeviceIndexes) =>
               /\ rd'.noRouteDevices = rd.noRouteDevices
               /\ ContinuesWithNextEvent ]_vars

\* The sink has returned ErrNoRoute for the two events of device index 0
\* and another error for the event of device index 1, and the round has come
\* to the end of the stream.
C33_Witness ==
  /\ rd.pc = "returned"
  /\ rd.err = "nil"
  /\ rd.round = 1
  /\ rd.idx = Len(RoundPackets)
  /\ rd.noRouteDevices = (0 :> 2)
  /\ rd.errors = 2
  /\ rd.sent = 2
  /\ rd.dropped = 0

\* ---------------------------------------------------------------------------
\* Stream file merge claims.

\* The event files of the source streams in the order of the list of paths.
RECURSIVE SourceFiles(_, _)
SourceFiles(disk, paths) ==
    IF paths = <<>> THEN <<>>
    ELSE [j \in 1..Len(disk[Head(paths)].EventFileInfo) |-> <<Head(paths), j>>]
         \o SourceFiles(disk, Tail(paths))

MetadataDeviceIDs(md) == { md.Devices[i].Id : i \in 1..Len(md.Devices) }

\* The device list of the written metadata holds each device of the sources
\* once, by ID.
UnionOfDevices ==
    /\ MetadataDeviceIDs(mrg.out) =
           UNION { MetadataDeviceIDs(mrg.disk[mrg.paths[k]]) : k \in 1..Len(mrg.paths) }
    /\ \A i, j \in 1..Len(mrg.out.Devices) :
           mrg.out.Devices[i].Id = mrg.out.Devices[j].Id => i = j

\* The n-th event file of the written metadata resolves every file-local
\* index to the device of the ID it had in the stream e[1], file e[2].
ResolvesAsInSource(n, e) ==
    LET src == mrg.disk[e[1]]
        sdm == src.EventFileInfo[e[2]].DeviceMapping
        odm == mrg.out.EventFileInfo[n].DeviceMapping
    IN  /\ Len(odm) = Len(sdm)
        /\ \A i \in 1..Len(sdm) :
               /\ odm[i] < Len(mrg.out.Devices)
               /\ mrg.out.Devices[odm[i] + 1].Id = src.Devices[sdm[i] + 1].Id

MappingsResolveAsInSources ==
    LET files == SourceFiles(mrg.disk, mrg.paths)
    IN  /\ Len(mrg.out.EventFileInfo) = Len(files)
        /\ \A n \in 1..Len(files) : ResolvesAsInSource(n, files[n])

DistinctPaths ==
    \A i, j \in 1..Len(mrg.paths) : mrg.paths[i] = mrg.paths[j] => i = j

\* C34: after Merge of any list of source stream paths, the merged metadata's
\* device list is the union by ID of the sources' devices, and every event
\* file's device_mapping resolves each file-local index to the device of the
\* ID the index resolved to in its source stream.
C34_MergedResolvesAsSources ==
    mrg.pc = "done" => UnionOfDevices /\ MappingsResolveAsInSources

\* What holds: the same for the lists that name no path twice, and Merge
\* returns no error for them.
C34_MergedResolvesAsSourcesDistinct ==
    DistinctPaths =>
        /\ mrg.pc # "failed"
        /\ mrg.pc = "done" => UnionOfDevices /\ MappingsResolveAsInSources

C34_WitnessDistinct ==
    /\ mrg.pc = "done"
    /\ Len(mrg.paths) = 2
    /\ DistinctPaths
    /\ Len(mrg.out.Devices) = 3
    /\ \E n \in 1..Len(mrg.out.EventFileInfo) :
           mrg.out.EventFileInfo[n].DeviceMapping #
               mrg.disk[SourceFiles(mrg.disk, mrg.paths)[n][1]]
                   .EventFileInfo[SourceFiles(mrg.disk, mrg.paths)[n][2]].DeviceMapping

\* ---------------------------------------------------------------------------
\* Mutable claims.

DirtyStrips(m) == { i \in 1..Len(m.strips) : m.strips[i].modified }

\* The packet holds, in the order of the strips, one strip state for each
\* strip of the set dirty, with the strip's number and pixels, and no other.
HoldsExactly(ret, m, dirty) ==
    /\ ~ret.nil
    /\ Len(ret.StripStates) = Cardinality(dirty)
    /\ \A i \in dirty :
           \E k \in 1..Len(ret.StripStates) :
               /\ ret.StripStates[k].StripNumber = i - 1
               /\ ret.StripStates[k].Pixels = m.strips[i].Pixels
    /\ \A k \in 1..Len(ret.StripStates) :
           ret.StripStates[k].StripNumber + 1 \in dirty

\* C35: SyncPacket returns a packet with exactly one StripState for each
\* strip dirty at the call and none for clean strips, and clears every dirty
\* flag; it returns nil when no strip is dirty, so a SyncPacket that follows
\* a SyncPacket with no modification in between returns nil.
C35_SyncPacketCarriesDirtyStrips ==
    [][DoSyncPacket =>
          /\ DirtyStrips(mtb) # {} =>
                 HoldsExactly(mtb'.ret, mtb, DirtyStrips(mtb))
          /\ DirtyStrips(mtb) = {} => mtb'.ret.nil
          /\ DirtyStrips(mtb') = {}
          /\ mtb.op = "SyncPacket" => mtb'.ret.nil]_vars

\* A SyncPacket returned one of two strips, the other being clean.
C35_Witness ==
    /\ mtb.op = "SyncPacket"
    /\ Len(mtb.strips) = 2
    /\ ~mtb.ret.nil
    /\ Len(mtb.ret.StripStates) = 1
    /\ mtb.ret.StripStates[1].StripNumber = 1

\* A SyncPacket returned nil while the device has strips.
C35_WitnessNil ==
    /\ mtb.op = "SyncPacket"
    /\ Len(mtb.strips) = 2
    /\ mtb.ret.nil

\* ---------------------------------------------------------------------------
\* Listener claims.

\* C36: Accept returns the context's error once its context is cancelled
\* even if no packet ever arrives, on every Accept call, including a call
\* made after an earlier Accept was cancelled while its read was pending.
C36_AcceptReturnsOnceCancelled ==
    (lsn.pc # "idle" /\ lsn.cancelled) ~> (lsn.pc = "idle")

\* What holds: a cancelled Accept returns unless it is sending its request
\* while the goroutine is still in the read of an earlier call.
C36_AcceptReturnsUnlessReadPending ==
    (lsn.pc # "idle" /\ lsn.cancelled)
        ~> (lsn.pc = "idle" \/ (lsn.pc = "request" /\ lsn.gpc = "read"))

\* What holds: an Accept that returns with its Context cancelled and no
\* result in resultC returns the Context's error.
C36_CancelledReturnsContextError ==
    [][lsn.pc # "idle" /\ lsn'.pc = "idle" /\ lsn.cancelled /\ lsn.resultC = <<>>
          => lsn'.ret = "ctxErr"]_vars

C36_WitnessCancelledFirst ==
    /\ lsn.calls = 1
    /\ lsn.pc = "idle"
    /\ lsn.ret = "ctxErr"
    /\ lsn.gpc = "read"
    /\ lsn.packets = 0

\* ---------------------------------------------------------------------------
\* Dispatcher lock order claims.

\* C37: concurrent calls to Sender() and to Close() on the last open Sender
\* (or the device becoming done at the same time) always all return: every
\* call that was begun returns.
C37_EveryCallReturns ==
    \A t \in Callers : (pc[t] # "idle") ~> (pc[t] = "idle")

\* C37, the interleaving it excludes: a thread holds dispatcherMu and waits
\* for the dispatcher's mutex while the holder of that mutex waits for
\* dispatcherMu.
C37_NoLockOrderCycle == ~LockCycle

\* What holds: a call returns in every behaviour without the lock cycle.
C37_EveryCallReturnsUnlessLockCycle ==
    \A t \in Callers : (pc[t] # "idle") ~> (pc[t] = "idle" \/ LockCycle)

\* ---------------------------------------------------------------------------
\* Discovery Registry lock claims.

\* The lifecycle task of entry e has decided to expire the entry.
DecidedToExpire(e) ==
    entry[e].pc \in {"markdone", "unregister"} /\ entry[e].cause \in {"timer", "late"}

\* C38: every Observe call returns, and every lifecycle task that has
\* decided to expire its entry completes its unregistration.
C38_ObserveReturnsAndExpiryCompletes ==
    /\ \A c \in Clients : (client[c].pc # "idle") ~> (client[c].pc = "idle")
    /\ \A e \in Entries : DecidedToExpire(e) ~> (entry[e].pc = "exit")

\* C38, the state it excludes: Observe waits in the send on the full
\* updateExpirationC with reg.mu held, while the entry's lifecycle task has
\* left its loop and no longer receives.
ObserveBlockedForEver ==
    \E c \in Clients :
        /\ client[c].pc = "send"
        /\ reg.mu = c
        /\ ~CanSend(entry[reg.devices[client[c].id]])
        /\ entry[reg.devices[client[c].id]].pc \in {"markdone", "unregister"}

C38_ObserveNeverBlockedForEver == ~ObserveBlockedForEver

\* What holds: the same in every behaviour that does not reach that state.
C38_ReturnsUnlessBlockedForEver ==
    /\ \A c \in Clients :
           (client[c].pc # "idle") ~> (client[c].pc = "idle" \/ ObserveBlockedForEver)
    /\ \A e \in Entries :
           DecidedToExpire(e) ~> (entry[e].pc = "exit" \/ ObserveBlockedForEver)

\* ---------------------------------------------------------------------------
\* Strips per datagram.

\* C39: no pixel datagram handed to the sender contains more than
\* MaxStripsPerPacket strip states (MaxStripsPerPacket >= 1), whatever the
\* outcomes of the SendOrEnqueueStripState and Flush calls.
C39_AtMostMaxStripsPerDatagram ==
    ps.MaxStripsPerPacket >= 1 =>
        \A a \in Handed :
            a.buf = "stripStateBuf" => a.nstrips <= ps.MaxStripsPerPacket

\* What holds: the same for the datagrams of a call before which the count
\* of buffered strips was below MaxStripsPerPacket, that is, when no flush
\* has failed and left its strips in the buffer.
C39_AtMostMaxStripsUnlessFlushFailed ==
    [][(ps.MaxStripsPerPacket >= 1 /\ ps.stripStateCount < ps.MaxStripsPerPacket) =>
          \A i \in 1..Len(call'.log) :
              (call'.log[i].handed /\ call'.log[i].buf = "stripStateBuf") =>
                  call'.log[i].nstrips <= ps.MaxStripsPerPacket]_vars

\* ---------------------------------------------------------------------------
\* Device Registry maps.

\* The entries of the sets of the map m are in the ID map, and m holds no
\* empty set.
SetsOfRegistered(m) == \A k \in DOMAIN m : m[k] # {} /\ m[k] \subseteq InIDMap

\* C40: whenever no operation of the device Registry is in progress (every
\* one changes the maps in one step under reg.mu), every entry of the ID map
\* is in exactly one group set and exactly one ordinal set, those of its
\* registered group and ordinal, no set holds an entry that is not in the ID
\* map, and neither map holds an empty set.
C40_MapsAgree ==
    /\ \A e \in InIDMap :
           /\ KeysOf(dreg.groupMap, e) = {dentry[e].registeredGroup}
           /\ KeysOf(dreg.ordinalMap, e) = {dentry[e].registeredOrdinal}
    /\ SetsOfRegistered(dreg.groupMap)
    /\ SetsOfRegistered(dreg.ordinalMap)

\* Two entries share a group set and are in different ordinal sets, after an
\* entry was unregistered.
C40_Witness ==
    /\ \E e1, e2 \in InIDMap :
           /\ e1 # e2
           /\ dentry[e1].registeredGroup = dentry[e2].registeredGroup
           /\ dentry[e1].registeredOrdinal # dentry[e2].registeredOrdinal
    /\ \E e \in RegEntries : dentry[e].pc = "exit"
    /\ \A a \in Adders : adder[a].pc = "idle"

====
